---------------------------- MODULE Spec2Model ----------------------------
(***************************************************************************)
(* Model of the smart-home firmware's WiFi connection / provisioning state *)
(* machine (wifi_manager.c), the captive-portal handlers that drive it     *)
(* (webserver.c), the application callback wired to it (task_wifi.c), and  *)
(* the MQTT command layer: the transport manager (mqtt_manager.c), the     *)
(* command parser (json_helper.c), the dispatcher (mqtt_callback.c) and    *)
(* the command handlers with the device state they keep (task_mqtt.c).     *)
(*                                                                         *)
(* Every C function is an operator from a world record w to the world      *)
(* after the call; w.env holds the choices the environment makes for the   *)
(* call (which driver / store calls fail, what an unfinished write leaves  *)
(* behind, what a use of a deleted mutex does).  An action applies one     *)
(* public operation or one driver event to the current world.              *)
(***************************************************************************)
EXTENDS Integers, Sequences, FiniteSets, TLC

VARIABLES ctx,    \* g_wifi_ctx
          glob,   \* isWiFi, isWiFiConnecting, static retry_count
          drv,    \* WiFi driver, event loop registrations, HTTP / DNS servers
          nvs,    \* durable store, namespace "wifi_config" (survives a restart)
          mq,     \* mqtt_manager.c and mqtt_callback.c statics
          dev,    \* device_state, the actuator table, the mode manager
          obs,    \* what the last operation did: its effects in order, its result
          tk      \* the tasks mid-statement: state_mutex owner, locals, position

vars == <<ctx, glob, drv, nvs, mq, dev, obs, tk>>

-----------------------------------------------------------------------------
(* Program constants *)

WIFI_RECONNECT_MAX == 3
SSID_SIZE == 32
PASSWORD_SIZE == 64
MQTT_CMD_ID_MAX_LEN == 8
MQTT_QOS_0 == 0
MQTT_QOS_1 == 1
MQTT_RETAIN_OFF == 0
MQTT_RETAIN_ON == 1
MIN_INTERVAL == 1
MAX_INTERVAL == 3600
INTERVAL_TIME_MS == 5000   \* CONFIG_INTERVAL_TIME_MS of the build: DEFAULT_INTERVAL seconds

(* Bounds of the model *)

MaxConsec == 5        \* cap of the consecutive-disconnect history counter
MaxBoots == 1         \* restarts followed

-----------------------------------------------------------------------------
(* Strings are sequences of characters; a character is a small number.     *)

NULL == <<0>>                        \* the null pointer, distinct from every string
EMPTY == <<>>
Home == <<1, 2>>
Cafe == <<2, 1, 1>>
Secret == <<3, 3>>

Ssid31 == [i \in 1..(SSID_SIZE - 1) |-> 1]   \* the longest SSID the buffer holds
Ssid32 == [i \in 1..SSID_SIZE |-> 1]         \* one character more

SsidArgs == {NULL, EMPTY, Home}
PasswordArgs == {NULL, Secret}

Min(a, b) == IF a < b THEN a ELSE b


-----------------------------------------------------------------------------
(* The world an operation runs in.  halt: "run" while the calling task     *)
(* runs; "panic" after a failed FreeRTOS assertion; "deadlock" when the     *)
(* task waits for a mutex it holds itself; "restart" after esp_restart().   *)
(* held: the connection mutex is held by the running task.                  *)

World == [ctx |-> ctx, glob |-> glob, drv |-> drv, nvs |-> nvs, mq |-> mq, dev |-> dev,
          trace |-> <<>>, ret |-> "ESP_OK", halt |-> "run", held |-> FALSE,
          env |-> [fail |-> {}, persist |-> FALSE, ub |-> "works"]]

WithEnv(w, env) == [w EXCEPT !.env = env]

Running(w) == w.halt = "run"
Fails(w, call) == call \in w.env.fail
Return(w, code) == IF Running(w) THEN [w EXCEPT !.ret = code] ELSE w
Log(w, k, v) == [w EXCEPT !.trace = Append(@, [k |-> k, v |-> v, locked |-> w.held])]
Fault(w, call) == Log(w, "fail", call)   \* the environment made this call fail
ReturnFault(call, w, code) == Return(Fault(w, call), code)

(* xSemaphoreTake(g_wifi_ctx.mutex, portMAX_DELAY) on a non-recursive mutex *)
xSemaphoreTake(w) ==
    IF ~Running(w) THEN w
    ELSE IF w.ctx.mutex = "NULL" THEN [w EXCEPT !.halt = "panic"]
    ELSE IF w.ctx.mutex = "deleted" /\ w.env.ub = "panic" THEN [w EXCEPT !.halt = "panic"]
    ELSE IF w.held THEN [w EXCEPT !.halt = "deadlock"]
    ELSE [w EXCEPT !.held = TRUE]

xSemaphoreGive(w) == IF Running(w) THEN [w EXCEPT !.held = FALSE] ELSE w

(* strncpy(dst, src, size - 1) into a buffer whose last byte stays 0 *)
Strncpy(src, size) == SubSeq(src, 1, Min(Len(src), size - 1))

(* nvs_get_str(handle, key, buf, &len): the value with its terminator must fit *)
NvsGetStrOk(store, key, size) == key \in DOMAIN store /\ Len(store[key]) + 1 <= size

NvsPut(store, key, val) == [k \in DOMAIN store \cup {key} |-> IF k = key THEN val ELSE store[k]]
NvsErase(store, keys) == [k \in DOMAIN store \ keys |-> store[k]]

-----------------------------------------------------------------------------
(* The WiFi driver, as far as the component drives it *)

esp_wifi_connect(w) ==
    IF ~Running(w) THEN w
    ELSE LET w1 == Log(w, "drv", "esp_wifi_connect")
         IN IF w1.drv.started
            THEN [w1 EXCEPT !.drv.link = IF @ = "up" THEN "up" ELSE "connecting"]
            ELSE w1

esp_wifi_disconnect(w) ==
    IF ~Running(w) THEN w
    ELSE LET w1 == Log(w, "drv", "esp_wifi_disconnect")
         IN [w1 EXCEPT !.drv.link = "down"]

esp_wifi_stop(w) ==
    IF ~Running(w) THEN w
    ELSE LET w1 == Log(w, "drv", "esp_wifi_stop")
         IN [w1 EXCEPT !.drv.link = "down",
                       !.drv.started = FALSE,
                       !.drv.sta_start_pending = FALSE]

(* esp_wifi_start(): posts WIFI_EVENT_STA_START when the station comes up *)
esp_wifi_start(w) ==
    IF ~Running(w) THEN w
    ELSE LET w1 == Log(w, "drv", "esp_wifi_start")
         IN [w1 EXCEPT !.drv.sta_start_pending = (@ \/ ~w1.drv.started),
                       !.drv.started = TRUE]

-----------------------------------------------------------------------------
(* wifi_manager.c: snapshot reads *)

wifi_manager_is_connected(w) ==
    LET w1 == xSemaphoreTake(w)
        connected == w1.ctx.state = "CONNECTED"
    IN Return(xSemaphoreGive(w1), IF connected THEN "true" ELSE "false")

(* the result is a bool the caller only logs; the caller's own result stays *)
wifi_manager_is_provisioned(w) == xSemaphoreGive(xSemaphoreTake(w))

(* wifi_manager_get_ip_info(&ip_info) with a non-null buffer *)
wifi_manager_get_ip_info(w) ==
    LET w1 == wifi_manager_is_connected(w)
    IN IF ~Running(w1) THEN w1
       ELSE IF w1.ret = "false" THEN Return(w1, "ESP_ERR_INVALID_STATE")
       ELSE Return(w1, "ESP_OK")

(* esp_mqtt_client_start(client) of the platform: it refuses a client that *)
(* is already running ("Client has started"), else it creates the client's *)
(* task, which holds the one session of the handle                         *)
esp_mqtt_client_start(w) ==
    IF w.mq.running THEN Return(w, "ESP_FAIL")
    ELSE IF Fails(w, "mqtt_start") THEN ReturnFault("mqtt_start", w, "ESP_FAIL")
    ELSE Return(Log([w EXCEPT !.mq.running = TRUE], "session", "started"), "ESP_OK")

(* mqtt_manager_start(), called by the application once an address is held *)
mqtt_manager_start(w) ==
    IF ~Running(w) THEN w
    ELSE LET w1 == Log(w, "call", "mqtt_manager_start")
         IN IF w1.mq.mqtt_client = "NULL" THEN Return(w1, "ESP_FAIL")
            ELSE esp_mqtt_client_start(w1)

(* a callback that starts the MQTT client as soon as a connection attempt  *)
(* begins                                                                   *)
task_wifi_event_callback_StartEarly(w, event) ==
    IF ~Running(w) THEN w
    ELSE IF event = "CONNECTING"
         THEN mqtt_manager_start([w EXCEPT !.glob.isWiFiConnecting = TRUE])
    ELSE IF event = "GOT_IP" THEN
        LET w1 == wifi_manager_get_ip_info(w)
        IN IF Running(w1) /\ w1.ret = "ESP_OK"
           THEN mqtt_manager_start([w1 EXCEPT !.glob.isWiFiConnecting = FALSE])
           ELSE w1
    ELSE IF event = "PROVISIONING_STARTED" THEN [w EXCEPT !.glob.isWiFiConnecting = FALSE]
    ELSE w

(* task_wifi.c: the callback the boot code registers *)
task_wifi_event_callback(w, event) ==
    IF ~Running(w) THEN w
    ELSE IF event = "CONNECTING" THEN [w EXCEPT !.glob.isWiFiConnecting = TRUE]
    ELSE IF event = "GOT_IP" THEN
        LET w1 == wifi_manager_get_ip_info(w)
        IN IF Running(w1) /\ w1.ret = "ESP_OK"
           THEN mqtt_manager_start([w1 EXCEPT !.glob.isWiFiConnecting = FALSE])
           ELSE w1
    ELSE IF event = "PROVISIONING_STARTED" THEN [w EXCEPT !.glob.isWiFiConnecting = FALSE]
    ELSE w

(* callback(event, data) through a function pointer read earlier *)
InvokeCallback(w, callback, event) ==
    IF ~Running(w) \/ callback = "NULL" THEN w
    ELSE task_wifi_event_callback(Log(w, "cb", event), event)

-----------------------------------------------------------------------------
(* wifi_manager.c: credentials in the durable store *)

load_credentials_from_nvs(w) ==
    IF ~Running(w) THEN w
    ELSE IF Fails(w, "nvs_open") THEN ReturnFault("nvs_open", w, "ESP_FAIL")
    ELSE IF DOMAIN w.nvs = {} THEN Return(w, "ESP_ERR_NVS_NOT_FOUND")
    ELSE IF ~NvsGetStrOk(w.nvs, "ssid", SSID_SIZE) THEN Return(w, "ESP_FAIL")
    ELSE LET w1 == [w EXCEPT !.ctx.ssid = w.nvs["ssid"]]
         IN IF ~NvsGetStrOk(w1.nvs, "password", PASSWORD_SIZE) THEN Return(w1, "ESP_FAIL")
            ELSE LET w2 == [w1 EXCEPT !.ctx.password = w1.nvs["password"]]
                     provisioned == IF "provisioned" \in DOMAIN w2.nvs
                                    THEN w2.nvs["provisioned"] ELSE 0
                 IN Return([w2 EXCEPT !.ctx.provisioned = (provisioned = 1)], "ESP_OK")

(* What the store holds when the handle is closed after the writes in      *)
(* `written` without a successful commit: all of them or none.             *)
Uncommitted(w, written) == IF w.env.persist THEN written ELSE w.nvs

wifi_manager_save_credentials(w, ssid, password) ==
    IF ~Running(w) THEN w
    ELSE IF ssid = NULL THEN Return(w, "ESP_ERR_INVALID_ARG")
    ELSE IF Fails(w, "nvs_open") THEN ReturnFault("nvs_open", w, "ESP_FAIL")
    ELSE IF Fails(w, "nvs_set_ssid") THEN ReturnFault("nvs_set_ssid", w, "ESP_FAIL")
    ELSE LET n1 == NvsPut(w.nvs, "ssid", ssid)
             n2 == NvsPut(n1, "password", IF password = NULL THEN EMPTY ELSE password)
             n3 == NvsPut(n2, "provisioned", 1)
         IN IF Fails(w, "nvs_set_password")
              THEN ReturnFault("nvs_set_password", [w EXCEPT !.nvs = Uncommitted(w, n1)],
                               "ESP_FAIL")
            ELSE IF Fails(w, "nvs_set_provisioned")
              THEN ReturnFault("nvs_set_provisioned", [w EXCEPT !.nvs = Uncommitted(w, n2)],
                               "ESP_FAIL")
            ELSE IF Fails(w, "nvs_commit")
              THEN ReturnFault("nvs_commit", [w EXCEPT !.nvs = Uncommitted(w, n3)],
                               "ESP_FAIL")
            ELSE LET w1 == Log([w EXCEPT !.nvs = n3], "nvs", "saved")
                     w2 == xSemaphoreTake(w1)
                     w3 == IF ~Running(w2) THEN w2
                           ELSE Log([w2 EXCEPT
                                       !.ctx.ssid = Strncpy(ssid, SSID_SIZE),
                                       !.ctx.password =
                                           Strncpy(IF password = NULL THEN EMPTY ELSE password,
                                                   PASSWORD_SIZE),
                                       !.ctx.provisioned = TRUE], "mem", "saved")
                 IN Return(xSemaphoreGive(w3), "ESP_OK")

wifi_manager_clear_credentials(w) ==
    IF ~Running(w) THEN w
    ELSE IF Fails(w, "nvs_open") THEN ReturnFault("nvs_open", w, "ESP_FAIL")
    ELSE LET erased == NvsErase(w.nvs, {"ssid", "password", "provisioned"})
         IN IF Fails(w, "nvs_commit")
              THEN ReturnFault("nvs_commit", [w EXCEPT !.nvs = Uncommitted(w, erased)],
                               "ESP_FAIL")
            ELSE LET w1 == Log([w EXCEPT !.nvs = erased], "nvs", "erased")
                     w2 == xSemaphoreTake(w1)
                     w3 == IF ~Running(w2) THEN w2
                           ELSE Log([w2 EXCEPT !.ctx.ssid = EMPTY,
                                               !.ctx.password = EMPTY,
                                               !.ctx.provisioned = FALSE], "mem", "cleared")
                     w4 == xSemaphoreGive(w3)
                 IN IF ~Running(w4) THEN w4
                    ELSE Return([w4 EXCEPT !.glob.isWiFi = FALSE], "ESP_OK")

-----------------------------------------------------------------------------
(* webserver.c / dns_server.c: the captive portal *)

(* A webserver_start() that starts a server whether or not one is running *)
webserver_start_NoGuard(w) ==
    IF ~Running(w) THEN w
    ELSE IF Fails(w, "httpd_start") THEN Fault(w, "httpd_start")
    ELSE Log([w EXCEPT !.drv.server = TRUE], "portal", "httpd_start")

webserver_start(w) ==
    IF ~Running(w) \/ w.drv.server THEN w
    ELSE IF Fails(w, "httpd_start") THEN Fault(w, "httpd_start")
    ELSE Log([w EXCEPT !.drv.server = TRUE], "portal", "httpd_start")

webserver_stop(w) ==
    IF ~Running(w) \/ ~w.drv.server THEN w
    ELSE Log([w EXCEPT !.drv.server = FALSE], "portal", "httpd_stop")

dns_server_start(w) ==
    IF ~Running(w) \/ w.drv.dns THEN w
    ELSE IF Fails(w, "dns_start") THEN Fault(w, "dns_start")
    ELSE Log([w EXCEPT !.drv.dns = TRUE], "portal", "dns_task_create")

dns_server_stop(w) ==
    IF ~Running(w) \/ ~w.drv.dns THEN w
    ELSE Log([w EXCEPT !.drv.dns = FALSE], "portal", "dns_task_delete")

-----------------------------------------------------------------------------
(* wifi_manager.c: operations *)

(* lines 212-253: what connect() does once its arguments are accepted *)
ConnectLocked(w, ssid, password) ==
    LET w0 == Log(w, "call", "wifi_manager_connect")
        w1 == xSemaphoreTake(w0)
    IN IF ~Running(w1) THEN w1
       ELSE IF Fails(w1, "set_mode")
          THEN ReturnFault("set_mode", xSemaphoreGive(w1), "ESP_FAIL")
       ELSE LET w2 == Log(w1, "drv", "esp_wifi_set_mode STA")
            IN IF Fails(w2, "set_config")
               THEN ReturnFault("set_config", xSemaphoreGive(w2), "ESP_FAIL")
               ELSE LET w3 == [w2 EXCEPT !.drv.sta_cfg = Strncpy(ssid, SSID_SIZE)]
                    IN IF Fails(w3, "wifi_start")
                       THEN ReturnFault("wifi_start", xSemaphoreGive(w3), "ESP_FAIL")
                       ELSE LET w4 == esp_wifi_start(w3)
                                w5 == Log([w4 EXCEPT !.ctx.state = "CONNECTING",
                                                     !.ctx.retry_count = 0],
                                          "state", "CONNECTING")
                                w6 == InvokeCallback(w5, w5.ctx.callback, "CONNECTING")
                            IN Return(xSemaphoreGive(w6), "ESP_OK")

(* A connect() that accepts a request only when Idle with a non-empty SSID *)
wifi_manager_connect_IdleOnly(w, ssid, password) ==
    IF ~Running(w) THEN w
    ELSE IF ~w.ctx.initialized THEN Return(w, "ESP_ERR_INVALID_STATE")
    ELSE IF ssid = NULL \/ ssid = EMPTY THEN Return(w, "ESP_ERR_INVALID_ARG")
    ELSE IF w.ctx.state # "IDLE" THEN Return(w, "ESP_ERR_INVALID_STATE")
    ELSE ConnectLocked(w, ssid, password)

wifi_manager_connect(w, ssid, password) ==
    IF ~Running(w) THEN w
    ELSE IF ~w.ctx.initialized THEN Return(w, "ESP_ERR_INVALID_STATE")
    ELSE IF ssid = NULL THEN Return(w, "ESP_ERR_INVALID_ARG")
    ELSE ConnectLocked(w, ssid, password)

wifi_manager_start_provisioning(w) ==
    IF ~Running(w) THEN w
    ELSE IF ~w.ctx.initialized THEN Return(w, "ESP_ERR_INVALID_STATE")
    ELSE LET w0 == Log(w, "call", "wifi_manager_start_provisioning")
             w1 == xSemaphoreTake(w0)
         IN IF ~Running(w1) THEN w1
            ELSE IF Fails(w1, "set_mode")
               THEN ReturnFault("set_mode", xSemaphoreGive(w1), "ESP_FAIL")
            ELSE LET w2 == Log(w1, "drv", "esp_wifi_set_mode APSTA")
                 IN IF Fails(w2, "set_config")
                    THEN ReturnFault("set_config", xSemaphoreGive(w2), "ESP_FAIL")
                    ELSE IF Fails(w2, "wifi_start")
                       THEN ReturnFault("wifi_start", xSemaphoreGive(w2), "ESP_FAIL")
                    ELSE LET w3 == esp_wifi_start(w2)
                             w4 == Log([w3 EXCEPT !.ctx.state = "PROVISIONING"],
                                       "state", "PROVISIONING")
                             w5 == dns_server_start(webserver_start(w4))
                             w6 == InvokeCallback(w5, w5.ctx.callback, "PROVISIONING_STARTED")
                         IN Return(xSemaphoreGive(w6), "ESP_OK")

wifi_manager_stop_provisioning(w) ==
    IF ~Running(w) THEN w
    ELSE LET w1 == dns_server_stop(webserver_stop(w))
             w2 == Log([w1 EXCEPT !.ctx.state = "IDLE"], "state", "IDLE")
         IN IF Fails(w2, "wifi_stop") THEN ReturnFault("wifi_stop", w2, "ESP_FAIL")
            ELSE Return(esp_wifi_stop(w2), "ESP_OK")

(* A start() that takes the connect path whatever is stored *)
wifi_manager_start_AlwaysConnect(w) ==
    IF ~Running(w) THEN w
    ELSE IF ~w.ctx.initialized THEN Return(w, "ESP_ERR_INVALID_STATE")
    ELSE wifi_manager_connect(w, w.ctx.ssid, w.ctx.password)

wifi_manager_start(w) ==
    IF ~Running(w) THEN w
    ELSE IF ~w.ctx.initialized THEN Return(w, "ESP_ERR_INVALID_STATE")
    ELSE IF ~w.ctx.provisioned \/ Len(w.ctx.ssid) = 0
         THEN wifi_manager_start_provisioning(w)
    ELSE wifi_manager_connect(w, w.ctx.ssid, w.ctx.password)

wifi_manager_register_callback(w, callback) ==
    IF ~Running(w) THEN w
    ELSE IF callback = "NULL" THEN Return(w, "ESP_ERR_INVALID_ARG")
    ELSE LET w1 == xSemaphoreTake(w)
             w2 == IF Running(w1) THEN [w1 EXCEPT !.ctx.callback = callback] ELSE w1
         IN Return(xSemaphoreGive(w2), "ESP_OK")

(* lines 113-175: the construction init() performs on first use *)
InitSteps(w) ==
    IF Fails(w, "mutex")
       THEN ReturnFault("mutex", [w EXCEPT !.ctx.mutex = "NULL"], "ESP_ERR_NO_MEM")
    ELSE LET w1 == Log([w EXCEPT !.ctx.mutex = "valid"], "create", "mutex")
         IN IF Fails(w1, "event_group")
            THEN ReturnFault("event_group",
                             [w1 EXCEPT !.ctx.event_group = "NULL",
                                        !.ctx.mutex = "deleted"],
                             "ESP_ERR_NO_MEM")
            ELSE LET w2 == Log([w1 EXCEPT !.ctx.event_group = "valid"],
                               "create", "event_group")
                 IN IF Fails(w2, "netif_init")
                    THEN ReturnFault("netif_init", w2, "ESP_FAIL")
                    ELSE IF Fails(w2, "event_loop")
                       THEN ReturnFault("event_loop", w2, "ESP_FAIL")
                    ELSE IF Fails(w2, "wifi_init")
                       THEN ReturnFault("wifi_init", w2, "ESP_FAIL")
                    ELSE IF Fails(w2, "register_wifi")
                       THEN ReturnFault("register_wifi", w2, "ESP_FAIL")
                    ELSE LET w3 == Log([w2 EXCEPT !.drv.reg_wifi = TRUE],
                                       "register", "WIFI_EVENT")
                         IN IF Fails(w3, "register_ip")
                            THEN ReturnFault("register_ip", w3, "ESP_FAIL")
                            ELSE LET w4 == Log([w3 EXCEPT !.drv.reg_ip = TRUE],
                                               "register", "IP_EVENT")
                                 IN IF Fails(w4, "set_storage")
                                    THEN ReturnFault("set_storage", w4, "ESP_FAIL")
                                    ELSE LET w5 == load_credentials_from_nvs(w4)
                                         IN Return([w5 EXCEPT !.ctx.state = "IDLE",
                                                              !.ctx.initialized = TRUE],
                                                   "ESP_OK")

(* An init() without the already-initialized guard *)
wifi_manager_init_NoGuard(w) == IF ~Running(w) THEN w ELSE InitSteps(w)

wifi_manager_init(w) ==
    IF ~Running(w) THEN w
    ELSE IF w.ctx.initialized THEN Return(w, "ESP_OK")
    ELSE InitSteps(w)

-----------------------------------------------------------------------------
(* wifi_manager.c: the handler registered for WIFI_EVENT and IP_EVENT *)

(* A retry branch that updates its counters but issues no reconnect *)
RetryBranch_NoReconnect(w) ==
    IF ~Running(w) THEN w
    ELSE LET n == w.glob.retry_count + 1
         IN [w EXCEPT !.glob.isWiFiConnecting = ~(n > WIFI_RECONNECT_MAX - 1),
                      !.glob.retry_count = IF n > WIFI_RECONNECT_MAX - 1 THEN 0 ELSE n]

(* lines 607-620: the reconnect attempt, made without the mutex *)
RetryBranch(w) ==
    IF ~Running(w) THEN w
    ELSE LET n == w.glob.retry_count + 1
             w1 == [w EXCEPT !.glob.isWiFiConnecting = ~(n > WIFI_RECONNECT_MAX - 1),
                             !.glob.retry_count = IF n > WIFI_RECONNECT_MAX - 1 THEN 0 ELSE n]
         IN esp_wifi_connect(w1)

(* An escalation that stops the station before it clears the credentials *)
EscalateBranch_StopFirst(w) ==
    IF ~Running(w) THEN w
    ELSE LET w1 == Log(w, "bits", "WIFI_FAIL_BIT")
             w2 == esp_wifi_stop(esp_wifi_disconnect(w1))
             w3 == wifi_manager_clear_credentials(
                       Log(w2, "call", "wifi_manager_clear_credentials"))
         IN wifi_manager_start_provisioning(w3)

(* An escalation that falls back to a reconnect when the portal did not start *)
EscalateBranch_ReconnectOnFailure(w) ==
    IF ~Running(w) THEN w
    ELSE LET w1 == Log(w, "bits", "WIFI_FAIL_BIT")
             w2 == wifi_manager_clear_credentials(
                       Log(w1, "call", "wifi_manager_clear_credentials"))
             w3 == esp_wifi_stop(esp_wifi_disconnect(w2))
             w4 == wifi_manager_start_provisioning(w3)
         IN IF Running(w4) /\ w4.ret # "ESP_OK"
            THEN esp_wifi_connect(esp_wifi_start(w4))
            ELSE w4

(* lines 621-638: retries exhausted *)
EscalateBranch(w) ==
    IF ~Running(w) THEN w
    ELSE LET w1 == Log(w, "bits", "WIFI_FAIL_BIT")
             w2 == wifi_manager_clear_credentials(
                       Log(w1, "call", "wifi_manager_clear_credentials"))
             w3 == esp_wifi_stop(esp_wifi_disconnect(w2))
         IN wifi_manager_start_provisioning(w3)

(* A retry test that gives up one disconnect earlier *)
ShouldRetry_OneFewer(w) == w.ctx.retry_count < WIFI_RECONNECT_MAX - 1

(* line 590 *)
ShouldRetry(w) == w.ctx.retry_count < WIFI_RECONNECT_MAX

(* A disconnect handler without the check for Provisioning *)
OnStaDisconnected_NoIgnore(w) ==
    LET w2 == Log([w EXCEPT !.ctx.state = "DISCONNECTED", !.glob.isWiFi = FALSE],
                  "state", "DISCONNECTED")
        should_retry == ShouldRetry(w2)
        w3 == IF should_retry THEN [w2 EXCEPT !.ctx.retry_count = (@ + 1) % 256] ELSE w2
        callback == w3.ctx.callback
        w4 == InvokeCallback(xSemaphoreGive(w3), callback, "DISCONNECTED")
    IN IF should_retry THEN RetryBranch(w4) ELSE EscalateBranch(w4)

(* lines 577-640, entered with the mutex held *)

OnStaDisconnected(w) ==
    IF w.ctx.state = "PROVISIONING" THEN xSemaphoreGive(w)
    ELSE LET w2 == Log([w EXCEPT !.ctx.state = "DISCONNECTED", !.glob.isWiFi = FALSE],
                       "state", "DISCONNECTED")
             should_retry == ShouldRetry(w2)
             w3 == IF should_retry THEN [w2 EXCEPT !.ctx.retry_count = (@ + 1) % 256] ELSE w2
             callback == w3.ctx.callback
             w4 == InvokeCallback(xSemaphoreGive(w3), callback, "DISCONNECTED")
         IN IF should_retry THEN RetryBranch(w4) ELSE EscalateBranch(w4)

(* An address-acquired handler that leaves the retry counter alone *)
OnGotIp_KeepsCount(w) ==
    LET w2 == Log(Log([w EXCEPT !.ctx.state = "CONNECTED", !.glob.isWiFi = TRUE],
                      "state", "CONNECTED"),
                  "bits", "WIFI_CONNECTED_BIT")
        callback == w2.ctx.callback
    IN InvokeCallback(xSemaphoreGive(w2), callback, "GOT_IP")

(* lines 642-661, entered with the mutex held *)
OnGotIp(w) ==
    LET w2 == Log(Log([w EXCEPT !.ctx.retry_count = 0,
                                !.ctx.state = "CONNECTED",
                                !.glob.isWiFi = TRUE],
                      "state", "CONNECTED"),
                  "bits", "WIFI_CONNECTED_BIT")
        callback == w2.ctx.callback
    IN InvokeCallback(xSemaphoreGive(w2), callback, "GOT_IP")

wifi_event_handler(w, event) ==
    IF ~Running(w) THEN w
    ELSE IF event = "STA_START" THEN esp_wifi_connect(w)
    ELSE LET w1 == xSemaphoreTake(w)
         IN IF ~Running(w1) THEN w1
            ELSE IF event = "STA_DISCONNECTED" THEN OnStaDisconnected(w1)
            ELSE IF event = "GOT_IP" THEN OnGotIp(w1)
            ELSE xSemaphoreGive(w1)

-----------------------------------------------------------------------------
(* webserver.c and task_button.c: the operations that end in a restart *)

esp_restart(w) ==
    IF Running(w) THEN [Log(w, "call", "esp_restart") EXCEPT !.halt = "restart"] ELSE w

(* A POST /connect handler that restarts whether or not the save worked *)
connect_handler_AlwaysRestart(w, body) ==
    IF ~Running(w) THEN w
    ELSE IF ~body.valid THEN Return(w, "ESP_FAIL")
    ELSE LET w1 == wifi_manager_save_credentials(w, body.ssid, body.password)
         IN IF ~Running(w1) THEN w1
            ELSE Return(esp_restart(w1), "ESP_OK")

(* POST /connect; body is what json_helper_parse_wifi_credentials makes of *)
(* the request: not valid, or an SSID of 1..31 characters and a password   *)
connect_handler(w, body) ==
    IF ~Running(w) THEN w
    ELSE IF ~body.valid THEN Return(w, "ESP_FAIL")
    ELSE LET w1 == wifi_manager_save_credentials(w, body.ssid, body.password)
         IN IF ~Running(w1) THEN w1
            ELSE IF w1.ret # "ESP_OK" THEN Return(w1, "ESP_FAIL")
            ELSE IF Fails(w1, "json_alloc") THEN ReturnFault("json_alloc", w1, "ESP_FAIL")
            ELSE Return(esp_restart(w1), "ESP_OK")

(* POST /reset *)
reset_handler(w) ==
    LET w1 == wifi_manager_clear_credentials(w)
    IN IF ~Running(w1) THEN w1
       ELSE IF Fails(w1, "json_alloc") THEN ReturnFault("json_alloc", w1, "ESP_FAIL")
       ELSE Return(esp_restart(w1), "ESP_OK")

(* the WiFi button: clear the credentials and restart *)
button_wifi_pressed(w) == esp_restart(wifi_manager_clear_credentials(w))

-----------------------------------------------------------------------------
(* State after power-on: RAM is zero, the store holds what it held.        *)

NvsEmpty == [k \in {} |-> 0]
NvsHome == [k \in {"ssid", "password", "provisioned"} |->
               IF k = "ssid" THEN Home ELSE IF k = "password" THEN Secret ELSE 1]

CtxZero == [initialized |-> FALSE, state |-> "IDLE", ssid |-> EMPTY, password |-> EMPTY,
            provisioned |-> FALSE, callback |-> "NULL", retry_count |-> 0,
            mutex |-> "NULL", event_group |-> "NULL"]
GlobZero == [isWiFi |-> FALSE, isWiFiConnecting |-> FALSE, retry_count |-> 0]
DrvZero == [started |-> FALSE, sta_cfg |-> EMPTY, link |-> "down",
            sta_start_pending |-> FALSE,
            reg_wifi |-> FALSE, reg_ip |-> FALSE, server |-> FALSE, dns |-> FALSE]
(* mqtt_manager.c / mqtt_callback.c statics.  mqtt_client: "NULL" or the   *)
(* handle of the client created last (every creation and every handler     *)
(* registration is an effect of the operation that makes it); slots: the   *)
(* on_*_cb pointers of mqtt_callback.c that are set.                       *)
(* running: esp_mqtt_client_start has started the client of the handle.    *)
MqZero == [mqtt_client |-> "NULL",
           mqtt_connected |-> FALSE, isMQTT |-> FALSE, running |-> FALSE,
           connected_callback |-> "NULL", disconnected_callback |-> "NULL",
           command_callback |-> "NULL", slots |-> {}]

(* task_mqtt.c device_state, state_mutex, interval_changed; the global     *)
(* g_interval_time_ms; device_control.c devices[] and initialized;         *)
(* mode_manager.c current_mode, initialized and isModeON; the delayed      *)
(* restart task a reboot / factory_reset command has created.              *)
DevZero == [device_state |-> [mode |-> 0, interval_sec |-> INTERVAL_TIME_MS \div 1000,
                              fan |-> 0, light |-> 0, ac |-> 0],
            state_mutex |-> "NULL", interval_changed |-> FALSE,
            g_interval_time_ms |-> INTERVAL_TIME_MS,
            devices |-> [fan |-> 0, light |-> 0, ac |-> 0], initialized |-> FALSE,
            current_mode |-> 1, mode_initialized |-> FALSE, isModeON |-> FALSE,
            delayed |-> "none"]

ObsZero == [op |-> "boot", arg |-> EMPTY, trace |-> <<>>, ret |-> "ESP_OK",
            halt |-> "run", pc |-> "boot", consec |-> 0, streak_prov |-> FALSE,
            streak_ps |-> 0, boots |-> 0]

(* task_mqtt_publish_current_state locals: int mode = 0, interval = 0, ... *)
SnapZero == [mode |-> 0, interval |-> 0, fan |-> 0, light |-> 0, ac |-> 0]
HwZero == [fan |-> 0, light |-> 0, ac |-> 0]

(* The tasks between two statements.  owner: the task holding state_mutex; *)
(* pub: task_mqtt_run with its locals (elapsed: whole seconds since         *)
(* last_data_publish, backup_due: the state backup interval has elapsed,    *)
(* hw: the three states sync has read, snap: the five fields the publish    *)
(* has read, ret: what the last mqtt_manager_publish_* returned, fresh: no  *)
(* other task has written the registry, the mode or device_state since this *)
(* publish re-derived them, state_elapsed: whole seconds since             *)
(* last_state_publish, since_pub: whole seconds since the publisher last    *)
(* called task_mqtt_publish_sensor_data); ev: where the event loop task is *)
(* in wifi_event_handler; blink: where task_wifi_set_wifi_connecting_task  *)
(* is and the isWiFi it has read; holder: the task that holds each mutex;  *)
(* todo: the takes and gives each task has still to make in the operation  *)
(* it is in; cmd: the transport's task inside a command     *)
(* handler with the handler's arguments; accepted: a set_interval has set   *)
(* interval_changed and the publisher has not reset its timer since.        *)
TkZero == [owner |-> "none", accepted |-> FALSE,
           pub |-> [pc |-> "loop", current_interval_ms |-> INTERVAL_TIME_MS,
                    elapsed |-> 0, backup_due |-> FALSE, hw |-> HwZero,
                    snap |-> SnapZero, ret |-> "none", fresh |-> FALSE,
                    state_elapsed |-> 0, since_pub |-> 0],
           cmd |-> [pc |-> "idle", interval |-> 0, fan |-> 0, light |-> 0],
           ev |-> "idle", blink |-> [pc |-> "test", seen |-> FALSE],
           holder |-> [wifi |-> "none", state |-> "none", data |-> "none",
                       device |-> "none"],
           todo |-> [main |-> <<>>, event |-> <<>>, mqtt |-> <<>>,
                     publisher |-> <<>>, sensor |-> <<>>]]

Init ==
    /\ ctx = CtxZero
    /\ glob = GlobZero
    /\ drv = DrvZero
    /\ nvs \in {NvsEmpty, NvsHome}
    /\ mq = MqZero
    /\ dev = DevZero
    /\ obs = ObsZero
    /\ tk = TkZero

-----------------------------------------------------------------------------
(* History kept for the properties: the run of consecutive disconnect      *)
(* events since the machine was last Connecting or Connected, and the      *)
(* ProvisioningStarted callbacks made during it.                            *)

CountCb(trace, event) ==
    Cardinality({i \in 1..Len(trace) : trace[i].k = "cb" /\ trace[i].v = event})

Streak(op, w) ==
    IF op # "STA_DISCONNECTED"
    THEN IF op \in {"STA_START", "OTHER_EVENT"}
         THEN [consec |-> obs.consec, prov |-> obs.streak_prov, ps |-> obs.streak_ps]
         ELSE [consec |-> 0, prov |-> FALSE, ps |-> 0]
    ELSE IF ctx.state \in {"CONNECTING", "CONNECTED"}
    THEN [consec |-> 1, prov |-> ctx.provisioned,
          ps |-> CountCb(w.trace, "PROVISIONING_STARTED")]
    ELSE IF obs.consec > 0
    THEN [consec |-> Min(obs.consec + 1, MaxConsec), prov |-> obs.streak_prov,
          ps |-> Min(obs.streak_ps + CountCb(w.trace, "PROVISIONING_STARTED"), MaxConsec)]
    ELSE [consec |-> 0, prov |-> FALSE, ps |-> 0]

(* The world after an operation becomes the next state; arg is the SSID    *)
(* the operation was given, if it takes one.                               *)
Outcome(op, arg, pc, w) ==
    /\ ctx' = w.ctx
    /\ glob' = w.glob
    /\ drv' = w.drv
    /\ nvs' = w.nvs
    /\ mq' = w.mq
    /\ dev' = w.dev
    /\ obs' = [op |-> op, arg |-> arg, trace |-> w.trace, ret |-> w.ret,
               halt |-> w.halt, pc |-> pc, consec |-> Streak(op, w).consec,
               streak_prov |-> Streak(op, w).prov, streak_ps |-> Streak(op, w).ps,
               boots |-> obs.boots]

(* an operation of a task other than the periodic publisher *)
Commit(op, arg, pc, w) == Outcome(op, arg, pc, w) /\ tk' = tk

(* The choices the environment can make during one operation *)
Env(fail, persist, ub) == [fail |-> fail, persist |-> persist, ub |-> ub]
UbChoices == IF ctx.mutex = "deleted" THEN {"works", "panic"} ELSE {"works"}
Fail1(calls) == {{}} \cup {{f} : f \in calls}

InitEnvs == {Env(f, FALSE, "works") :
                f \in Fail1({"mutex", "event_group", "netif_init", "event_loop", "wifi_init",
                             "register_wifi", "register_ip", "set_storage", "nvs_open"})}
PlainEnvs == {Env({}, FALSE, ub) : ub \in UbChoices}
ProvFails == Fail1({"set_mode", "set_config", "wifi_start", "httpd_start", "dns_start"})
ProvEnvs == {Env(f, FALSE, ub) : f \in ProvFails, ub \in UbChoices}
ConnEnvs == {Env(f, FALSE, ub) : f \in Fail1({"set_mode", "set_config", "wifi_start"}),
                                 ub \in UbChoices}
StartEnvs == ProvEnvs
SaveEnvs == {Env(f, FALSE, ub) : f \in Fail1({"nvs_open", "nvs_set_ssid", "json_alloc"}),
                                 ub \in UbChoices}
            \cup {Env({f}, p, ub) : f \in {"nvs_set_password", "nvs_set_provisioned",
                                           "nvs_commit"},
                                    p \in BOOLEAN, ub \in UbChoices}
ClearFails == {Env(f, FALSE, "works") : f \in Fail1({"nvs_open"})}
              \cup {Env({"nvs_commit"}, p, "works") : p \in BOOLEAN}
ClearEnvs == {[e EXCEPT !.ub = ub] : e \in ClearFails, ub \in UbChoices}
ResetEnvs == ClearEnvs \cup {Env({"json_alloc"}, FALSE, ub) : ub \in UbChoices}
EscalateEnvs == {[e EXCEPT !.fail = @ \cup f] : e \in ClearFails, f \in ProvFails}
GotIpEnvs == {Env(f, FALSE, "works") : f \in Fail1({"mqtt_start"})}

-----------------------------------------------------------------------------
(* Actions: one boot step, public operation, portal request, button press  *)
(* or driver event, run to completion by the task that makes it.            *)

Up == obs.halt = "run"
Booted == Up /\ obs.pc = "started"

(* task_init.c, task_init_wifi(): init, register the callback, start *)
BootInit ==
    /\ Up /\ obs.pc = "boot"
    /\ \E env \in InitEnvs :
          Commit("init", EMPTY, "inited", wifi_manager_init(WithEnv(World, env)))

BootRegister ==
    /\ Up /\ obs.pc = "inited"
    /\ \E env \in PlainEnvs :
          Commit("register_callback", EMPTY, "registered",
                 wifi_manager_register_callback(WithEnv(World, env),
                                                "task_wifi_event_callback"))

BootStart ==
    /\ Up /\ obs.pc = "registered"
    /\ \E env \in StartEnvs :
          Commit("start", EMPTY, "started",
                 wifi_manager_is_provisioned(wifi_manager_start(WithEnv(World, env))))

(* Public operations called directly once the firmware is up *)
ApiInit ==
    /\ Booted
    /\ \E env \in InitEnvs :
          Commit("init", EMPTY, obs.pc, wifi_manager_init(WithEnv(World, env)))

ApiRegisterCallback ==
    /\ Booted
    /\ \E callback \in {"NULL", "task_wifi_event_callback"}, env \in PlainEnvs :
          Commit("register_callback", EMPTY, obs.pc,
                 wifi_manager_register_callback(WithEnv(World, env), callback))

ApiStart ==
    /\ Booted
    /\ \E env \in StartEnvs :
          Commit("start", EMPTY, obs.pc, wifi_manager_start(WithEnv(World, env)))

ApiConnect ==
    /\ Booted
    /\ \E ssid \in SsidArgs, password \in PasswordArgs, env \in ConnEnvs :
          Commit("connect", ssid, obs.pc,
                 wifi_manager_connect(WithEnv(World, env), ssid, password))

ApiDisconnect ==
    /\ Booted
    /\ Commit("disconnect", EMPTY, obs.pc, Return(esp_wifi_disconnect(World), "ESP_OK"))

ApiStartProvisioning ==
    /\ Booted
    /\ \E env \in ProvEnvs :
          Commit("start_provisioning", EMPTY, obs.pc,
                 wifi_manager_start_provisioning(WithEnv(World, env)))

ApiStopProvisioning ==
    /\ Booted
    /\ \E env \in {Env(f, FALSE, "works") : f \in Fail1({"wifi_stop"})} :
          Commit("stop_provisioning", EMPTY, obs.pc,
                 wifi_manager_stop_provisioning(WithEnv(World, env)))

(* POST /connect reaches connect_handler only while the portal is up *)
PortalConnect ==
    /\ Up /\ drv.server
    /\ \E valid \in BOOLEAN, ssid \in {Home, Cafe}, env \in SaveEnvs :
          Commit("POST /connect", ssid, obs.pc,
                 connect_handler(WithEnv(World, env),
                                 [valid |-> valid, ssid |-> ssid, password |-> Secret]))

PortalReset ==
    /\ Up /\ drv.server
    /\ \E env \in ResetEnvs :
          Commit("POST /reset", EMPTY, obs.pc, reset_handler(WithEnv(World, env)))

ButtonWifi ==
    /\ Up /\ obs.pc = "started"
    /\ \E env \in ClearEnvs :
          Commit("button_wifi", EMPTY, obs.pc, button_wifi_pressed(WithEnv(World, env)))

(* Driver events, delivered by the event loop task to the registered handler *)
StaStartEvent ==
    /\ Up /\ drv.reg_wifi /\ drv.sta_start_pending
    /\ Commit("STA_START", EMPTY, obs.pc,
              wifi_event_handler([World EXCEPT !.drv.sta_start_pending = FALSE], "STA_START"))

DisconnectedEvent ==
    /\ Up /\ drv.reg_wifi
    /\ drv.link # "down"
    /\ \E env \in IF ctx.state # "PROVISIONING" /\ ~ShouldRetry(World)
                  THEN EscalateEnvs ELSE {Env({}, FALSE, "works")} :
          Commit("STA_DISCONNECTED", EMPTY, obs.pc,
                 wifi_event_handler(WithEnv([World EXCEPT !.drv.link = "down"], env),
                                    "STA_DISCONNECTED"))

GotIpEvent ==
    /\ Up /\ drv.reg_ip
    /\ drv.link # "down" /\ drv.sta_cfg # EMPTY
    /\ \E env \in GotIpEnvs :
          Commit("GOT_IP", EMPTY, obs.pc,
                 wifi_event_handler(WithEnv([World EXCEPT !.drv.link = "up"], env), "GOT_IP"))

OtherEvent ==
    /\ Up /\ drv.reg_wifi /\ drv.started
    /\ Commit("OTHER_EVENT", EMPTY, obs.pc, wifi_event_handler(World, "OTHER_EVENT"))

(* esp_restart() or a panic: RAM and driver start over, the store stays *)
Reboot ==
    /\ obs.halt \in {"restart", "panic"}
    /\ obs.boots < MaxBoots
    /\ ctx' = CtxZero /\ glob' = GlobZero /\ drv' = DrvZero
    /\ nvs' = nvs
    /\ mq' = MqZero /\ dev' = DevZero
    /\ tk' = TkZero
    /\ obs' = [ObsZero EXCEPT !.boots = obs.boots + 1]

(* The firmware as wired: boot, driver events, the portal, the button *)
Next ==
    \/ BootInit \/ BootRegister \/ BootStart
    \/ PortalConnect \/ PortalReset \/ ButtonWifi
    \/ StaStartEvent \/ DisconnectedEvent \/ GotIpEvent \/ OtherEvent
    \/ Reboot

Spec == Init /\ [][Next]_vars

(* The component under a client that calls its public operations directly *)
NextApi ==
    \/ BootInit \/ BootRegister \/ BootStart
    \/ ApiInit \/ ApiRegisterCallback \/ ApiStart \/ ApiConnect \/ ApiDisconnect
    \/ ApiStartProvisioning \/ ApiStopProvisioning
    \/ StaStartEvent \/ DisconnectedEvent \/ GotIpEvent

SpecApi == Init /\ [][NextApi]_vars

(* The credential operations called directly after init() *)
ApiSaveCredentials ==
    /\ Up /\ obs.pc = "inited"
    /\ \E ssid \in {NULL, Home, Ssid31, Ssid32}, password \in PasswordArgs,
          env \in SaveEnvs :
          Commit("save_credentials", ssid, obs.pc,
                 wifi_manager_save_credentials(WithEnv(World, env), ssid, password))

ApiClearCredentials ==
    /\ Up /\ obs.pc = "inited"
    /\ \E env \in ClearEnvs :
          Commit("clear_credentials", EMPTY, obs.pc,
                 wifi_manager_clear_credentials(WithEnv(World, env)))

NextCred == BootInit \/ ApiSaveCredentials \/ ApiClearCredentials

SpecCred == Init /\ [][NextCred]_vars

-----------------------------------------------------------------------------
(* JSON values as cJSON holds them.  t is the type, n the valueint of a    *)
(* number, s the valuestring of a string, m the members of an object.      *)
(* JNull is the NULL item a lookup returns for a missing key.  An id is a  *)
(* sequence of characters; command and device names are strings (the       *)
(* 31-character command buffer of mqtt_manager_handle_command holds every  *)
(* name the dispatcher compares with, and no cut of a longer string equals *)
(* one).                                                                   *)

JNull == [t |-> "null", n |-> 0, s |-> ""]
JNum(n) == [t |-> "number", n |-> n, s |-> ""]
JStr(s) == [t |-> "string", n |-> 0, s |-> s]

(* the "id" member: missing, a number, a string of characters *)
JIdNull == [t |-> "null", n |-> 0, s |-> EMPTY]
JIdNum(n) == [t |-> "number", n |-> n, s |-> EMPTY]
JId(s) == [t |-> "string", n |-> 0, s |-> s]

(* the members of a "params" object the dispatcher looks up; NoMembers has *)
(* none of them                                                            *)
NoMembers == [device |-> JNull, state |-> JNull, fan |-> JNull, light |-> JNull,
              ac |-> JNull, mode |-> JNull, interval |-> JNull, timestamp |-> JNull]

JObj(members) == [t |-> "object", m |-> members]

(* no "params" member *)
NoParams == [t |-> "null", m |-> NoMembers]

cJSON_IsString(item) == item.t = "string"
cJSON_IsNumber(item) == item.t = "number"
cJSON_GetObjectItem(object, key) ==
    IF object.t = "object" /\ key \in DOMAIN object.m THEN object.m[key] ELSE JNull

(* json_helper.c *)
json_helper_get_string(object, key, default_val) ==
    IF object.t = "null" THEN default_val
    ELSE LET item == cJSON_GetObjectItem(object, key)
         IN IF cJSON_IsString(item) THEN item.s ELSE default_val

json_helper_get_int(object, key, default_val) ==
    IF object.t = "null" THEN default_val
    ELSE LET item == cJSON_GetObjectItem(object, key)
         IN IF cJSON_IsNumber(item) THEN item.n ELSE default_val

(* An inbound payload: text cJSON_Parse rejects, or a parsed document with *)
(* its "id", "command" and "params" members.                               *)
Garbage == [json |-> FALSE, id |-> JIdNull, command |-> JNull, params |-> NoParams]
Msg(id, command, params) == [json |-> TRUE, id |-> id, command |-> command, params |-> params]

(* a parse that accepts any id member, string or not *)
json_helper_parse_command_AnyId(msg) ==
    IF ~msg.json THEN [root |-> FALSE, cmd_id |-> EMPTY, command |-> ""]
    ELSE IF ~cJSON_IsString(msg.command) THEN [root |-> FALSE, cmd_id |-> EMPTY, command |-> ""]
    ELSE [root |-> TRUE,
          cmd_id |-> IF cJSON_IsString(msg.id) THEN Strncpy(msg.id.s, MQTT_CMD_ID_MAX_LEN)
                     ELSE EMPTY,
          command |-> msg.command.s]

(* json_helper_parse_command(json_str, cmd_id, 8, command, 32): root is    *)
(* FALSE when it returns NULL                                              *)
json_helper_parse_command(msg) ==
    IF ~msg.json THEN [root |-> FALSE, cmd_id |-> EMPTY, command |-> ""]
    ELSE IF ~cJSON_IsString(msg.id) THEN [root |-> FALSE, cmd_id |-> EMPTY, command |-> ""]
    ELSE IF ~cJSON_IsString(msg.command)
         THEN [root |-> FALSE, cmd_id |-> Strncpy(msg.id.s, MQTT_CMD_ID_MAX_LEN), command |-> ""]
    ELSE [root |-> TRUE,
          cmd_id |-> Strncpy(msg.id.s, MQTT_CMD_ID_MAX_LEN),
          command |-> msg.command.s]

-----------------------------------------------------------------------------
(* mqtt_manager.c *)

(* an init that keeps the client it already has *)
mqtt_manager_init_Guarded(w) ==
    IF ~Running(w) THEN w
    ELSE IF w.mq.mqtt_client # "NULL" THEN Return(w, "ESP_OK")
    ELSE IF Fails(w, "esp_mqtt_client_init")
    THEN ReturnFault("esp_mqtt_client_init", w, "ESP_FAIL")
    ELSE LET w1 == Log([w EXCEPT !.mq.mqtt_client = "client"], "create", "mqtt_client")
             w2 == Log(w1, "register", "mqtt_manager_event_handler")
         IN Return(w2, "ESP_OK")

(* mqtt_client = esp_mqtt_client_init(&mqtt_cfg) overwrites the handle *)
mqtt_manager_init(w) ==
    IF ~Running(w) THEN w
    ELSE IF Fails(w, "esp_mqtt_client_init")
    THEN ReturnFault("esp_mqtt_client_init", [w EXCEPT !.mq.mqtt_client = "NULL"], "ESP_FAIL")
    ELSE LET w1 == Log([w EXCEPT !.mq.mqtt_client = "client"], "create", "mqtt_client")
             w2 == Log(w1, "register", "mqtt_manager_event_handler")
         IN Return(w2, "ESP_OK")

mqtt_manager_is_connected(w) == w.mq.mqtt_connected

(* the publishers share one shape: nothing while disconnected; then the    *)
(* document is built and handed to esp_mqtt_client_publish, either of     *)
(* which can fail                                                          *)
(* esp_mqtt_client_publish(mqtt_client, topic, json, 0, qos, retain)       *)
Publish(w, topic, payload, qos, retain) ==
    IF ~Running(w) THEN w
    ELSE IF ~w.mq.mqtt_connected THEN Return(w, "ESP_ERR_INVALID_STATE")
    ELSE IF Fails(w, topic) THEN ReturnFault(topic, w, "ESP_FAIL")
    ELSE LET w1 == Log(w, "esp_mqtt_client_publish",
                       [topic |-> topic, qos |-> qos, retain |-> retain])
         IN Return(Log(w1, topic, payload), "ESP_OK")

(* a data publish at QoS 1 *)
mqtt_manager_publish_data_AtLeastOnce(w) ==
    Publish(w, "data", "sensor", MQTT_QOS_1, MQTT_RETAIN_OFF)

mqtt_manager_publish_data(w) == Publish(w, "data", "sensor", MQTT_QOS_0, MQTT_RETAIN_OFF)

mqtt_manager_publish_state(w, mode, interval, fan, light, ac) ==
    Publish(w, "state", [mode |-> mode, interval |-> interval,
                         fan |-> fan, light |-> light, ac |-> ac],
            MQTT_QOS_1, MQTT_RETAIN_ON)

mqtt_manager_publish_info(w) == Publish(w, "info", "device", MQTT_QOS_1, MQTT_RETAIN_ON)

(* mqtt_manager_publish_response(cmd_id, status): declared in               *)
(* mqtt_manager.h ("QoS: 1, Retain: Yes"); published like the state        *)
mqtt_manager_publish_response(w, cmd_id, status) ==
    Publish(w, "response", [cmd_id |-> cmd_id, status |-> status],
            MQTT_QOS_1, MQTT_RETAIN_ON)

mqtt_manager_register_command_callback(w, callback) ==
    [w EXCEPT !.mq.command_callback = callback]
mqtt_manager_register_connected_callback(w, callback) ==
    [w EXCEPT !.mq.connected_callback = callback]
mqtt_manager_register_disconnected_callback(w, callback) ==
    [w EXCEPT !.mq.disconnected_callback = callback]

-----------------------------------------------------------------------------
(* device_control.c *)

Devices == {"fan", "light", "ac"}

device_control_init(w) ==
    IF ~Running(w) \/ w.dev.initialized THEN w
    ELSE IF Fails(w, "device_mutex") THEN ReturnFault("device_mutex", w, "ESP_FAIL")
    ELSE IF Fails(w, "gpio_config") THEN ReturnFault("gpio_config", w, "ESP_FAIL")
    ELSE Return([w EXCEPT !.dev.initialized = TRUE,
                          !.dev.devices = [d \in Devices |-> 0]], "ESP_OK")

(* device_control_set_state(device, state) *)
device_control_set_state(w, device, state) ==
    IF ~Running(w) THEN w
    ELSE IF ~w.dev.initialized THEN Return(w, "ESP_ERR_INVALID_ARG")
    ELSE Return(Log([w EXCEPT !.dev.devices[device] = state], "gpio", device), "ESP_OK")

device_control_toggle(w, device) ==
    IF ~Running(w) THEN w
    ELSE IF ~w.dev.initialized THEN Return(w, "ESP_ERR_INVALID_ARG")
    ELSE Return(Log([w EXCEPT !.dev.devices[device] = 1 - @], "gpio", device), "ESP_OK")

-----------------------------------------------------------------------------
(* mode_manager.c; stored is the mode the store holds, -1 when none *)

mode_manager_init(w, stored) ==
    IF ~Running(w) \/ w.dev.mode_initialized THEN w
    ELSE LET mode == IF stored < 0 \/ Fails(w, "nvs_mode") THEN w.dev.current_mode
                     ELSE stored
         IN Return([w EXCEPT !.dev.current_mode = mode,
                             !.dev.mode_initialized = TRUE,
                             !.dev.isModeON = (mode = 1)], "ESP_OK")

mode_manager_set_mode(w, mode) ==
    IF ~Running(w) THEN w
    ELSE IF ~w.dev.mode_initialized THEN Return(w, "ESP_ERR_INVALID_STATE")
    ELSE IF mode # 0 /\ mode # 1 THEN Return(w, "ESP_ERR_INVALID_ARG")
    ELSE IF w.dev.current_mode = mode
    THEN Return([w EXCEPT !.dev.isModeON = (mode = 1)], "ESP_OK")
    ELSE LET w1 == [w EXCEPT !.dev.current_mode = mode, !.dev.isModeON = (mode = 1)]
             w2 == IF Fails(w1, "nvs_mode") THEN ReturnFault("nvs_mode", w1, "ESP_FAIL")
                   ELSE Return(w1, "ESP_OK")
         IN Log(w2, "mode_cb", mode)

mode_manager_toggle_mode(w) ==
    IF ~Running(w) THEN w
    ELSE IF ~w.dev.mode_initialized THEN Return(w, "ESP_ERR_INVALID_STATE")
    ELSE mode_manager_set_mode(w, IF w.dev.current_mode = 1 THEN 0 ELSE 1)

-----------------------------------------------------------------------------
(* task_mqtt.c: the device state and the command handlers *)

(* xSemaphoreTake(state_mutex, portMAX_DELAY) *)
TakeState(w) ==
    IF ~Running(w) THEN w
    ELSE IF w.dev.state_mutex = "NULL" THEN [w EXCEPT !.halt = "panic"]
    ELSE w

(* xSemaphoreTake(state_mutex, pdMS_TO_TICKS(100)) == pdTRUE: another task *)
(* may hold the mutex for longer than the wait                             *)
TakeStateTimeout(w, call) ==
    IF ~Running(w) THEN [ok |-> FALSE, w |-> w]
    ELSE IF w.dev.state_mutex = "NULL" THEN [ok |-> FALSE, w |-> [w EXCEPT !.halt = "panic"]]
    ELSE IF Fails(w, call) THEN [ok |-> FALSE, w |-> Fault(w, call)]
    ELSE [ok |-> TRUE, w |-> w]

task_mqtt_find_device_state(device_name) == device_name \in Devices

task_mqtt_sync_device_states(w) ==
    IF ~Running(w) \/ ~w.dev.initialized THEN w
    ELSE LET t == TakeStateTimeout(w, "sync_take")
         IN IF ~t.ok THEN t.w
            ELSE [t.w EXCEPT !.dev.device_state.mode = IF w.dev.current_mode = 1 THEN 1 ELSE 0,
                             !.dev.device_state.fan = w.dev.devices["fan"],
                             !.dev.device_state.light = w.dev.devices["light"],
                             !.dev.device_state.ac = w.dev.devices["ac"]]

(* a publish that skips the synchronisation with the hardware *)
task_mqtt_publish_current_state_NoSync(w) ==
    IF ~Running(w) \/ ~mqtt_manager_is_connected(w) THEN w
    ELSE LET t == TakeStateTimeout(w, "publish_take")
             s == t.w.dev.device_state
         IN IF ~t.ok THEN t.w
            ELSE mqtt_manager_publish_state(t.w, s.mode, s.interval_sec, s.fan, s.light, s.ac)

task_mqtt_publish_current_state(w) ==
    IF ~Running(w) \/ ~mqtt_manager_is_connected(w) THEN w
    ELSE LET w1 == task_mqtt_sync_device_states(w)
             t == TakeStateTimeout(w1, "publish_take")
             s == t.w.dev.device_state
         IN IF ~t.ok THEN t.w
            ELSE mqtt_manager_publish_state(t.w, s.mode, s.interval_sec, s.fan, s.light, s.ac)

task_mqtt_publish_sensor_data(w) ==
    LET w1 == TakeState(w)
    IN IF ~Running(w1) THEN w1 ELSE mqtt_manager_publish_data(w1)

task_mqtt_publish_info_data(w) == mqtt_manager_publish_info(w)

task_mqtt_on_connected(w) ==
    task_mqtt_publish_info_data(Log(w, "log", "MQTT Connected"))
task_mqtt_on_disconnected(w) == w

(* a handler that answers only when the device could be switched *)
task_mqtt_on_set_device_NoErrorReply(w, cmd_id, device, state) ==
    LET w1 == IF task_mqtt_find_device_state(device)
              THEN LET t == TakeState(w)
                   IN IF Running(t) THEN [t EXCEPT !.dev.device_state[device] = state] ELSE t
              ELSE w
        w2 == IF device \in Devices
              THEN device_control_set_state(w1, device, IF state # 0 THEN 1 ELSE 0)
              ELSE Return(w1, "ESP_ERR_INVALID_ARG")
        w3 == IF w2.ret = "ESP_OK" THEN mqtt_manager_publish_response(w2, cmd_id, "success")
              ELSE w2
    IN task_mqtt_publish_current_state(w3)

(* a handler that switches the fan when the name is not a known one *)
task_mqtt_on_set_device_DefaultFan(w, cmd_id, device, state) ==
    LET w1 == IF task_mqtt_find_device_state(device)
              THEN LET t == TakeState(w)
                   IN IF Running(t) THEN [t EXCEPT !.dev.device_state[device] = state] ELSE t
              ELSE w
        w2 == device_control_set_state(w1, IF device \in Devices THEN device ELSE "fan",
                                       IF state # 0 THEN 1 ELSE 0)
        w3 == mqtt_manager_publish_response(w2, cmd_id,
                                            IF w2.ret = "ESP_OK" THEN "success" ELSE "error")
    IN task_mqtt_publish_current_state(w3)

task_mqtt_on_set_device(w, cmd_id, device, state) ==
    LET w1 == IF task_mqtt_find_device_state(device)
              THEN LET t == TakeState(w)
                   IN IF Running(t) THEN [t EXCEPT !.dev.device_state[device] = state] ELSE t
              ELSE w
        w2 == IF device \in Devices
              THEN device_control_set_state(w1, device, IF state # 0 THEN 1 ELSE 0)
              ELSE Return(Log(w1, "log", "Unknown device"), "ESP_ERR_INVALID_ARG")
        w3 == mqtt_manager_publish_response(w2, cmd_id,
                                            IF w2.ret = "ESP_OK" THEN "success" ELSE "error")
    IN task_mqtt_publish_current_state(w3)

(* one "Control hardware" block of task_mqtt_on_set_devices: r.result is   *)
(* the handler's result so far                                             *)
SetOne(r, device, value) ==
    IF value < 0 \/ ~Running(r.w) THEN r
    ELSE LET w1 == device_control_set_state(r.w, device, IF value # 0 THEN 1 ELSE 0)
         IN [w |-> w1, result |-> IF w1.ret # "ESP_OK" THEN w1.ret ELSE r.result]

(* a handler that takes the value 0 for "leave unchanged" as well *)
task_mqtt_on_set_devices_ZeroSentinel(w, cmd_id, fan, light, ac) ==
    LET t == TakeState(w)
        w1 == IF ~Running(t) THEN t
              ELSE [t EXCEPT !.dev.device_state.fan = IF fan > 0 THEN fan ELSE @,
                             !.dev.device_state.light = IF light > 0 THEN light ELSE @,
                             !.dev.device_state.ac = IF ac > 0 THEN ac ELSE @]
        r == SetOne(SetOne(SetOne([w |-> w1, result |-> "ESP_OK"],
                                  "fan", IF fan > 0 THEN fan ELSE -1),
                           "light", IF light > 0 THEN light ELSE -1),
                    "ac", IF ac > 0 THEN ac ELSE -1)
        w3 == mqtt_manager_publish_response(r.w, cmd_id,
                                            IF r.result = "ESP_OK" THEN "success" ELSE "error")
    IN task_mqtt_publish_current_state(w3)

task_mqtt_on_set_devices(w, cmd_id, fan, light, ac) ==
    LET t == TakeState(w)
        w1 == IF ~Running(t) THEN t
              ELSE [t EXCEPT !.dev.device_state.fan = IF fan >= 0 THEN fan ELSE @,
                             !.dev.device_state.light = IF light >= 0 THEN light ELSE @,
                             !.dev.device_state.ac = IF ac >= 0 THEN ac ELSE @]
        r == SetOne(SetOne(SetOne([w |-> w1, result |-> "ESP_OK"], "fan", fan),
                           "light", light),
                    "ac", ac)
        w3 == mqtt_manager_publish_response(r.w, cmd_id,
                                            IF r.result = "ESP_OK" THEN "success" ELSE "error")
    IN task_mqtt_publish_current_state(w3)

task_mqtt_on_set_mode(w, cmd_id, mode) ==
    LET t == TakeState(w)
        w1 == IF Running(t) THEN [t EXCEPT !.dev.device_state.mode = mode] ELSE t
        w2 == mode_manager_set_mode(w1, mode)
        w3 == mqtt_manager_publish_response(w2, cmd_id, "success")
    IN task_mqtt_publish_current_state(w3)

(* a handler whose range check lets MAX_INTERVAL + 1 through *)
task_mqtt_on_set_interval_OffByOne(w, cmd_id, interval) ==
    IF interval >= MIN_INTERVAL /\ interval <= MAX_INTERVAL + 1
    THEN LET t == TakeState(w)
             w1 == IF Running(t)
                   THEN [t EXCEPT !.dev.device_state.interval_sec = interval,
                                  !.dev.g_interval_time_ms = interval * 1000,
                                  !.dev.interval_changed = TRUE]
                   ELSE t
             w2 == mqtt_manager_publish_response(w1, cmd_id, "success")
         IN task_mqtt_publish_current_state(w2)
    ELSE mqtt_manager_publish_response(w, cmd_id, "error")

task_mqtt_on_set_interval(w, cmd_id, interval) ==
    IF interval >= MIN_INTERVAL /\ interval <= MAX_INTERVAL
    THEN LET t == TakeState(w)
             w1 == IF Running(t)
                   THEN [t EXCEPT !.dev.device_state.interval_sec = interval,
                                  !.dev.g_interval_time_ms = interval * 1000,
                                  !.dev.interval_changed = TRUE]
                   ELSE t
             w2 == mqtt_manager_publish_response(w1, cmd_id, "success")
         IN task_mqtt_publish_current_state(w2)
    ELSE mqtt_manager_publish_response(w, cmd_id, "error")

(* sensor_manager_set_timestamp(timestamp) writes the clock chip *)
task_mqtt_on_set_timestamp(w, cmd_id, timestamp) ==
    IF ~Running(w) THEN w
    ELSE IF Fails(w, "set_timestamp")
    THEN mqtt_manager_publish_response(Fault(w, "set_timestamp"), cmd_id, "error")
    ELSE mqtt_manager_publish_response(Log(w, "rtc", timestamp), cmd_id, "success")

(* a handler that republishes the state and the info only *)
task_mqtt_on_get_status_NoData(w, cmd_id) ==
    LET w1 == mqtt_manager_publish_response(w, cmd_id, "success")
        w3 == task_mqtt_publish_current_state(w1)
    IN task_mqtt_publish_info_data(w3)

task_mqtt_on_get_status(w, cmd_id) ==
    LET w1 == mqtt_manager_publish_response(w, cmd_id, "success")
        w2 == task_mqtt_publish_sensor_data(w1)
        w3 == task_mqtt_publish_current_state(w2)
    IN task_mqtt_publish_info_data(w3)

task_mqtt_on_ping(w, cmd_id) == mqtt_manager_publish_response(w, cmd_id, "success")

(* xTaskCreate(task_mqtt_delayed_reboot_task, ...) after the response *)
task_mqtt_on_reboot(w, cmd_id) ==
    LET w1 == mqtt_manager_publish_response(w, cmd_id, "success")
    IN IF ~Running(w1) THEN w1
       ELSE IF Fails(w1, "xTaskCreate") THEN Fault(w1, "xTaskCreate")
       ELSE Log([w1 EXCEPT !.dev.delayed = IF @ = "none" THEN "reboot" ELSE @],
                "task", "reboot_task")

task_mqtt_on_factory_reset(w, cmd_id) ==
    LET w1 == mqtt_manager_publish_response(w, cmd_id, "success")
    IN IF ~Running(w1) THEN w1
       ELSE IF Fails(w1, "xTaskCreate") THEN Fault(w1, "xTaskCreate")
       ELSE Log([w1 EXCEPT !.dev.delayed = IF @ = "none" THEN "factory_reset" ELSE @], "task", "factory_reset_task")

(* vTaskDelay(pdMS_TO_TICKS(1000)); esp_restart() *)
task_mqtt_delayed_reboot_task(w) ==
    esp_restart(Log(w, "delay", "1000 ms"))

(* a factory reset that restarts before it erases: the erase is never     *)
(* reached                                                                 *)
task_mqtt_delayed_factory_reset_task_RestartFirst(w) ==
    esp_restart(Log(w, "delay", "1000 ms"))

(* vTaskDelay(pdMS_TO_TICKS(1000)); nvs_flash_erase(); esp_restart() *)
task_mqtt_delayed_factory_reset_task(w) ==
    LET w1 == Log(w, "delay", "1000 ms")
        w2 == Log([w1 EXCEPT !.nvs = NvsEmpty], "nvs", "nvs_flash_erase")
    IN esp_restart(w2)

-----------------------------------------------------------------------------
(* mqtt_callback.c: one slot per handler; invoking an empty slot only logs *)

Invoke(w, slot, after) ==
    IF ~Running(w) THEN w
    ELSE IF slot \in w.mq.slots THEN after
    ELSE Log(w, "log", "No callback")

mqtt_callback_invoke_set_device(w, cmd_id, device, state) ==
    Invoke(w, "on_set_device",
           task_mqtt_on_set_device(Log(w, "handler", "set_device"), cmd_id, device, state))
mqtt_callback_invoke_set_devices(w, cmd_id, fan, light, ac) ==
    Invoke(w, "on_set_devices",
           task_mqtt_on_set_devices(Log(w, "handler", "set_devices"), cmd_id, fan, light, ac))
mqtt_callback_invoke_set_mode(w, cmd_id, mode) ==
    Invoke(w, "on_set_mode",
           task_mqtt_on_set_mode(Log(w, "handler", "set_mode"), cmd_id, mode))
mqtt_callback_invoke_set_interval(w, cmd_id, interval) ==
    Invoke(w, "on_set_interval",
           task_mqtt_on_set_interval(Log(w, "handler", "set_interval"), cmd_id, interval))
mqtt_callback_invoke_set_timestamp(w, cmd_id, timestamp) ==
    Invoke(w, "on_set_timestamp",
           task_mqtt_on_set_timestamp(Log(w, "handler", "set_timestamp"), cmd_id, timestamp))
mqtt_callback_invoke_get_status(w, cmd_id) ==
    Invoke(w, "on_get_status",
           task_mqtt_on_get_status(Log(w, "handler", "get_status"), cmd_id))
mqtt_callback_invoke_reboot(w, cmd_id) ==
    Invoke(w, "on_reboot",
           task_mqtt_on_reboot(Log(w, "handler", "reboot"), cmd_id))
mqtt_callback_invoke_factory_reset(w, cmd_id) ==
    Invoke(w, "on_factory_reset",
           task_mqtt_on_factory_reset(Log(w, "handler", "factory_reset"), cmd_id))

(* mqtt_callback_invoke_ping(cmd_id): declared in mqtt_callback.h *)
mqtt_callback_invoke_ping(w, cmd_id) ==
    Invoke(w, "on_ping",
           task_mqtt_on_ping(Log(w, "handler", "ping"), cmd_id))

(* a dispatcher whose set_devices branch calls the set_device handler *)
mqtt_callback_internal_command_handler_WrongBranch(w, cmd_id, command, params) ==
    IF ~Running(w) THEN w
    ELSE IF command \in {"set_device", "set_devices"}
    THEN mqtt_callback_invoke_set_device(w, cmd_id,
                                         json_helper_get_string(params, "device", ""),
                                         json_helper_get_int(params, "state", 0))
    ELSE IF command = "set_mode"
    THEN mqtt_callback_invoke_set_mode(w, cmd_id, json_helper_get_int(params, "mode", 0))
    ELSE IF command = "set_interval"
    THEN mqtt_callback_invoke_set_interval(w, cmd_id,
                                           json_helper_get_int(params, "interval", 0))
    ELSE IF command = "set_timestamp"
    THEN mqtt_callback_invoke_set_timestamp(w, cmd_id,
                                            json_helper_get_int(params, "timestamp", 0))
    ELSE IF command = "get_status" THEN mqtt_callback_invoke_get_status(w, cmd_id)
    ELSE IF command = "reboot" THEN mqtt_callback_invoke_reboot(w, cmd_id)
    ELSE IF command = "factory_reset" THEN mqtt_callback_invoke_factory_reset(w, cmd_id)
    ELSE Log(w, "log", "Unknown command")

mqtt_callback_internal_command_handler(w, cmd_id, command, params) ==
    IF ~Running(w) THEN w
    ELSE IF command = "set_device"
    THEN mqtt_callback_invoke_set_device(w, cmd_id,
                                         json_helper_get_string(params, "device", ""),
                                         json_helper_get_int(params, "state", 0))
    ELSE IF command = "set_devices"
    THEN mqtt_callback_invoke_set_devices(w, cmd_id,
                                          json_helper_get_int(params, "fan", -1),
                                          json_helper_get_int(params, "light", -1),
                                          json_helper_get_int(params, "ac", -1))
    ELSE IF command = "set_mode"
    THEN mqtt_callback_invoke_set_mode(w, cmd_id, json_helper_get_int(params, "mode", 0))
    ELSE IF command = "set_interval"
    THEN mqtt_callback_invoke_set_interval(w, cmd_id,
                                           json_helper_get_int(params, "interval", 0))
    ELSE IF command = "set_timestamp"
    THEN mqtt_callback_invoke_set_timestamp(w, cmd_id,
                                            json_helper_get_int(params, "timestamp", 0))
    ELSE IF command = "get_status" THEN mqtt_callback_invoke_get_status(w, cmd_id)
    ELSE IF command = "reboot" THEN mqtt_callback_invoke_reboot(w, cmd_id)
    ELSE IF command = "factory_reset" THEN mqtt_callback_invoke_factory_reset(w, cmd_id)
    ELSE Log(w, "log", "Unknown command")

(* The dispatcher of the revision that answers on the response topic: the  *)
(* branches above and one more for "ping" (its handler and its slot are    *)
(* declared in mqtt_callback.h and registered by task_mqtt_init).          *)
CommandHandlerWithPing(w, cmd_id, command, params) ==
    IF command = "ping" THEN mqtt_callback_invoke_ping(w, cmd_id)
    ELSE mqtt_callback_internal_command_handler(w, cmd_id, command, params)

mqtt_callback_internal_connected_handler(w) ==
    IF "on_connected" \in w.mq.slots THEN task_mqtt_on_connected(w) ELSE w
mqtt_callback_internal_disconnected_handler(w) ==
    IF "on_disconnected" \in w.mq.slots THEN task_mqtt_on_disconnected(w) ELSE w

mqtt_callback_init(w) ==
    mqtt_manager_register_command_callback(
        mqtt_manager_register_disconnected_callback(
            mqtt_manager_register_connected_callback(
                w, "mqtt_callback_internal_connected_handler"),
            "mqtt_callback_internal_disconnected_handler"),
        "mqtt_callback_internal_command_handler")

Slots == {"on_connected", "on_disconnected", "on_data_publish", "on_state_publish",
          "on_set_device", "on_set_devices", "on_set_mode", "on_set_interval",
          "on_set_timestamp", "on_get_status", "on_ping", "on_reboot",
          "on_factory_reset"}

(* task_mqtt_init(): the callbacks are registered before the mutex and the *)
(* publisher task are created                                              *)
task_mqtt_init(w) ==
    IF ~Running(w) THEN w
    ELSE LET w1 == [mqtt_callback_init(w) EXCEPT !.mq.slots = Slots]
         IN IF Fails(w1, "state_mutex") THEN ReturnFault("state_mutex", w1, "ESP_FAIL")
            ELSE LET w2 == [w1 EXCEPT !.dev.state_mutex = "created"]
                 IN IF Fails(w2, "task_mqtt") THEN ReturnFault("task_mqtt", w2, "ESP_FAIL")
                    ELSE Return(Log(w2, "task", "task_mqtt"), "ESP_OK")

(* a handler that passes every document on, parsed or not *)
mqtt_manager_handle_command_NoCheck(w, msg) ==
    IF ~Running(w) \/ w.mq.command_callback = "NULL" THEN w
    ELSE LET p == json_helper_parse_command(msg)
         IN CommandHandlerWithPing(w, p.cmd_id,
                                   IF cJSON_IsString(msg.command) THEN msg.command.s ELSE "",
                                   IF msg.json THEN msg.params ELSE NoParams)

(* mqtt_manager_handle_command(json_str) *)
mqtt_manager_handle_command(w, msg) ==
    IF ~Running(w) \/ w.mq.command_callback = "NULL" THEN w
    ELSE LET p == json_helper_parse_command(msg)
         IN IF ~p.root THEN Log(w, "log", "Failed to parse command JSON")
            ELSE CommandHandlerWithPing(w, p.cmd_id, p.command, msg.params)

(* mqtt_manager_event_handler: the three events that change state *)

(* a connected event that notifies the application before it subscribes *)
OnMqttConnected_CallbackFirst(w) ==
    LET w0 == [w EXCEPT !.mq.isMQTT = TRUE, !.mq.mqtt_connected = TRUE]
        w1 == IF w0.mq.connected_callback # "NULL"
              THEN mqtt_callback_internal_connected_handler(w0)
              ELSE w0
    IN Log(Log(w1, "esp_mqtt_client_subscribe", [topic |-> "command", qos |-> MQTT_QOS_1]),
           "subscribe", "command")

OnMqttConnected(w) ==
    LET w0 == Log([w EXCEPT !.mq.isMQTT = TRUE, !.mq.mqtt_connected = TRUE],
                  "esp_mqtt_client_subscribe", [topic |-> "command", qos |-> MQTT_QOS_1])
        w1 == Log(w0, "subscribe", "command")
    IN IF w1.mq.connected_callback # "NULL"
       THEN mqtt_callback_internal_connected_handler(w1)
       ELSE w1

OnMqttDisconnected(w) ==
    LET w1 == [w EXCEPT !.mq.isMQTT = FALSE, !.mq.mqtt_connected = FALSE]
    IN IF w1.mq.disconnected_callback # "NULL"
       THEN mqtt_callback_internal_disconnected_handler(w1)
       ELSE w1

(* MQTT_EVENT_DATA on the command topic: strndup, then the command handler *)
OnMqttData(w, msg) ==
    IF Fails(w, "strndup") THEN Fault(w, "strndup")
    ELSE mqtt_manager_handle_command(w, msg)

mqtt_manager_event_handler(w, event, msg) ==
    IF ~Running(w) THEN w
    ELSE IF event = "MQTT_EVENT_CONNECTED" THEN OnMqttConnected(w)
    ELSE IF event = "MQTT_EVENT_DISCONNECTED" THEN OnMqttDisconnected(w)
    ELSE IF event = "MQTT_EVENT_DATA" THEN OnMqttData(w, msg)
    ELSE w

-----------------------------------------------------------------------------
(* The command layer as wired by task_init(): the hardware and the mode    *)
(* manager first, the MQTT manager and task_mqtt last; then broker events, *)
(* inbound commands and the device buttons.  A restart a command has asked *)
(* for happens before the next input.                                      *)

Id3 == <<7, 8, 9>>
Id7 == [i \in 1..(MQTT_CMD_ID_MAX_LEN - 1) |-> 7]   \* the longest id the buffer holds
Id8 == [i \in 1..MQTT_CMD_ID_MAX_LEN |-> 7]         \* one character more

Vocabulary == {"set_device", "set_devices", "set_mode", "set_interval", "set_timestamp",
               "get_status", "ping", "reboot", "factory_reset"}

Cmd(command, params) == Msg(JId(Id3), JStr(command), params)

MalformedMsgs ==
    {Garbage,
     Msg(JIdNull, JStr("set_mode"), JObj([NoMembers EXCEPT !.mode = JNum(1)])),
     Msg(JIdNum(5), JStr("set_devices"), JObj([NoMembers EXCEPT !.fan = JNum(1)])),
     Msg(JId(Id3), JNull, JObj([NoMembers EXCEPT !.interval = JNum(2)])),
     Msg(JId(Id3), JNum(1), NoParams)}

SetDeviceMsgs ==
    {Cmd("set_device", JObj([NoMembers EXCEPT !.device = JStr("fan"), !.state = JNum(1)])),
     Cmd("set_device", JObj([NoMembers EXCEPT !.device = JStr("light"), !.state = JNum(0)])),
     Cmd("set_device", JObj([NoMembers EXCEPT !.device = JStr("heater"), !.state = JNum(1)])),
     Cmd("set_device", JObj([NoMembers EXCEPT !.device = JStr("ac")])),
     Cmd("set_device", NoParams)}

SetDevicesMsgs ==
    {Cmd("set_devices", JObj([NoMembers EXCEPT !.fan = f, !.light = l, !.ac = a])) :
        f \in {JNum(-1), JNum(0), JNum(1)},
        l \in {JNull, JNum(1)},
        a \in {JNum(0), JStr("on")}}
    \cup {Cmd("set_devices", NoParams),
          Cmd("set_devices", JObj([NoMembers EXCEPT !.light = JNum(0), !.ac = JNum(2)]))}

SetModeMsgs ==
    {Cmd("set_mode", JObj([NoMembers EXCEPT !.mode = m])) : m \in {JNull, JNum(0), JNum(1), JNum(2)}}

SetIntervalMsgs ==
    {Cmd("set_interval", JObj([NoMembers EXCEPT !.interval = i])) :
        i \in {JNull, JNum(-1), JNum(MIN_INTERVAL - 1), JNum(MIN_INTERVAL),
               JNum(MAX_INTERVAL), JNum(MAX_INTERVAL + 1)}}
    \cup {Cmd("set_interval", NoParams)}

OtherMsgs ==
    {Cmd("set_timestamp", JObj([NoMembers EXCEPT !.timestamp = JNum(1700000000)])),
     Cmd("get_status", NoParams), Cmd("ping", NoParams), Cmd("reboot", NoParams),
     Cmd("factory_reset", NoParams)}

IdMsgs ==
    {Msg(JId(id), JStr("ping"), NoParams) : id \in {EMPTY, Id7, Id8}}
    \cup {Msg(JId(Id8), JStr("set_mode"), NoParams)}

UnknownMsgs == {Cmd(c, NoParams) : c \in {"SET_MODE", "blink", ""}}

Messages == MalformedMsgs \cup SetDeviceMsgs \cup SetDevicesMsgs \cup SetModeMsgs
            \cup SetIntervalMsgs \cup OtherMsgs \cup IdMsgs \cup UnknownMsgs

CmdEnv(fail) == Env(fail, FALSE, "works")
BootHardwareEnvs == {CmdEnv({}), CmdEnv({"device_mutex"}), CmdEnv({"gpio_config"})}
BootMqttEnvs == {CmdEnv(f) : f \in {{}, {"esp_mqtt_client_init"}, {"state_mutex"},
                                    {"task_mqtt"}}}
MqttInitEnvs == {CmdEnv({}), CmdEnv({"esp_mqtt_client_init"})}
(* the platform calls a command is followed through the failure of *)
FaultCases ==
    {<<Cmd("ping", NoParams), "strndup">>,
     <<Cmd("ping", NoParams), "response">>,
     <<Cmd("set_interval", JObj([NoMembers EXCEPT !.interval = JNum(MAX_INTERVAL + 1)])),
       "response">>,
     <<Cmd("set_mode", JObj([NoMembers EXCEPT !.mode = JNum(0)])), "nvs_mode">>,
     <<Cmd("set_mode", JObj([NoMembers EXCEPT !.mode = JNum(0)])), "state">>,
     <<Cmd("set_devices", NoParams), "publish_take">>,
     <<Cmd("set_timestamp", JObj([NoMembers EXCEPT !.timestamp = JNum(1700000000)])),
       "set_timestamp">>,
     <<Cmd("get_status", NoParams), "sync_take">>,
     <<Cmd("get_status", NoParams), "data">>,
     <<Cmd("reboot", NoParams), "xTaskCreate">>}

EnvsFor(msg) ==
    {CmdEnv({})} \cup {CmdEnv({c[2]}) : c \in {x \in FaultCases : x[1] = msg}}
ButtonEnvs == {CmdEnv({}), CmdEnv({"nvs_mode"})}

CmdBooted == Up /\ mq.command_callback # "NULL"

(* task_init_button() and task_init_mode_manager() *)
BootHardware ==
    /\ Up /\ ~dev.mode_initialized
    /\ \E env \in BootHardwareEnvs, stored \in {-1, 0, 1} :
          Commit("boot_hardware", EMPTY, obs.pc,
                 mode_manager_init(device_control_init(WithEnv(World, env)), stored))

(* task_init_mqtt(): the result of mqtt_manager_init() is only logged *)
BootMqtt ==
    /\ Up /\ dev.mode_initialized /\ mq.command_callback = "NULL"
    /\ \E env \in BootMqttEnvs :
          Commit("boot_mqtt", EMPTY, obs.pc,
                 task_mqtt_init(mqtt_manager_init(WithEnv(World, env))))

(* a further call of mqtt_manager_init() *)
ApiMqttInit ==
    /\ CmdBooted /\ dev.delayed = "none"
    /\ \E env \in MqttInitEnvs :
          Commit("mqtt_manager_init", EMPTY, obs.pc, mqtt_manager_init(WithEnv(World, env)))

MqttConnectedEvent ==
    /\ CmdBooted /\ mq.mqtt_client # "NULL" /\ ~mq.mqtt_connected /\ dev.delayed = "none"
    /\ \E env \in {CmdEnv({}), CmdEnv({"info"})} :
          Commit("MQTT_EVENT_CONNECTED", EMPTY, obs.pc,
                 mqtt_manager_event_handler(WithEnv(World, env), "MQTT_EVENT_CONNECTED",
                                            Garbage))

MqttDisconnectedEvent ==
    /\ CmdBooted /\ mq.mqtt_connected /\ dev.delayed = "none"
    /\ Commit("MQTT_EVENT_DISCONNECTED", EMPTY, obs.pc,
              mqtt_manager_event_handler(World, "MQTT_EVENT_DISCONNECTED", Garbage))

(* a message arrives on the command topic *)
MqttDataEvent ==
    /\ CmdBooted /\ mq.mqtt_connected /\ dev.delayed = "none"
    /\ \E msg \in Messages :
       \E env \in EnvsFor(msg) :
          Commit("MQTT_EVENT_DATA", msg, obs.pc,
                 mqtt_manager_event_handler(WithEnv(World, env), "MQTT_EVENT_DATA", msg))

(* task_button.c button_processing_task: BUTTON_LIGHT / BUTTON_FAN / BUTTON_AC *)
ButtonDevice ==
    /\ Up /\ dev.mode_initialized /\ dev.delayed = "none"
    /\ \E device \in {"light"}, env \in ButtonEnvs :
          Commit("button_device", EMPTY, obs.pc,
                 task_mqtt_publish_current_state(
                     device_control_toggle(WithEnv(World, env), device)))

(* BUTTON_MODE *)
ButtonMode ==
    /\ Up /\ dev.mode_initialized /\ dev.delayed = "none"
    /\ \E env \in ButtonEnvs :
          Commit("button_mode", EMPTY, obs.pc,
                 task_mqtt_publish_current_state(
                     mode_manager_toggle_mode(WithEnv(World, env))))

(* task_mqtt_delayed_reboot_task / task_mqtt_delayed_factory_reset_task    *)
(* after their delay: nvs_flash_erase() for a factory reset, esp_restart() *)
DelayedTask ==
    /\ Up /\ dev.delayed # "none"
    /\ Commit(dev.delayed, EMPTY, obs.pc,
              IF dev.delayed = "factory_reset"
              THEN task_mqtt_delayed_factory_reset_task(World)
              ELSE task_mqtt_delayed_reboot_task(World))

NextCmd ==
    \/ BootHardware
    \/ BootMqtt
    \/ ApiMqttInit
    \/ MqttConnectedEvent
    \/ MqttDisconnectedEvent
    \/ MqttDataEvent
    \/ ButtonDevice
    \/ ButtonMode
    \/ DelayedTask

(* the command layer with credentials in the store, which a factory reset *)
(* erases                                                                 *)
InitCmd == Init /\ nvs = NvsHome

SpecCmd == InitCmd /\ [][NextCmd]_vars

-----------------------------------------------------------------------------
(* The tasks statement by statement: the periodic publisher task_mqtt_run,  *)
(* the transport's task that delivers the broker events and runs the        *)
(* command handlers, and the button task.  A step is one group of           *)
(* statements between two accesses to shared data; tk.pub.pc and tk.cmd.pc  *)
(* name the statement each task executes next.                              *)

ElapsedCap == INTERVAL_TIME_MS \div 1000

(* the five fields as task_mqtt_publish_current_state copies them *)
Snapshot(s) == [mode |-> s.mode, interval |-> s.interval_sec,
                fan |-> s.fan, light |-> s.light, ac |-> s.ac]

(* what task_mqtt_sync_device_states writes from the states it has read *)
Synced(s, mode, hw) == [s EXCEPT !.mode = IF mode = 1 THEN 1 ELSE 0,
                                 !.fan = hw.fan, !.light = hw.light, !.ac = hw.ac]

(* the timeout the publisher passes to the xSemaphoreTake it stands at *)
PubWait ==
    IF tk.pub.pc = "data_take" THEN "portMAX_DELAY"
    ELSE IF tk.pub.pc \in {"pcs_sync", "pcs_take"} THEN "100 ms"
    ELSE "none"

(* the publisher is about to call esp_mqtt_client_publish *)
PubSend == tk.pub.pc \in {"data_send", "pcs_send"}

(* the registry, the mode and the device fields of device_state are as *)
(* they were before the step                                           *)
Unwritten ==
    /\ dev'.devices = dev.devices
    /\ dev'.current_mode = dev.current_mode
    /\ Snapshot(dev'.device_state).fan = Snapshot(dev.device_state).fan
    /\ Snapshot(dev'.device_state).light = Snapshot(dev.device_state).light
    /\ Snapshot(dev'.device_state).ac = Snapshot(dev.device_state).ac
    /\ Snapshot(dev'.device_state).mode = Snapshot(dev.device_state).mode

FrameTask == UNCHANGED <<ctx, glob, drv, nvs, obs>>

(* task_mqtt_publish_current_state() returns to task_mqtt_run, which sets *)
(* last_state_publish = now                                                *)
PubReturn(ret) == [tk.pub EXCEPT !.pc = "delay", !.backup_due = FALSE, !.hw = HwZero,
                                 !.snap = SnapZero, !.ret = ret, !.fresh = FALSE]

(* task_mqtt_run: the loop head, the interval_changed test, the two    *)
(* elapsed tests and vTaskDelay(pdMS_TO_TICKS(1000))                   *)
RunLoop ==
    /\ FrameTask /\ UNCHANGED <<mq, dev>>
    /\ \/ /\ tk.pub.pc = "loop" /\ mqtt_manager_is_connected(World)
          /\ tk' = [tk EXCEPT !.pub.pc = "flag", !.pub.ret = "none",
                              !.pub.current_interval_ms = dev.g_interval_time_ms]
       \/ /\ tk.pub.pc = "loop" /\ ~mqtt_manager_is_connected(World)
          /\ tk' = [tk EXCEPT !.pub.pc = "delay", !.pub.ret = "none"]
       \/ /\ tk.pub.pc = "flag"
          /\ tk' = [tk EXCEPT !.pub.pc = IF dev.interval_changed THEN "reset"
                                         ELSE "data_due"]
       \/ /\ tk.pub.pc = "data_due"
          /\ tk.pub.elapsed * 1000 >= tk.pub.current_interval_ms
          /\ tk' = IF dev.isModeON THEN [tk EXCEPT !.pub.pc = "data_take"]
                   ELSE [tk EXCEPT !.pub.pc = "backup", !.pub.elapsed = 0]
       \/ /\ tk.pub.pc = "data_due"
          /\ tk.pub.elapsed * 1000 < tk.pub.current_interval_ms
          /\ tk' = [tk EXCEPT !.pub.pc = "backup"]
       \/ /\ tk.pub.pc = "backup"
          /\ tk' = [tk EXCEPT !.pub.pc = IF tk.pub.backup_due THEN "pcs_conn"
                                         ELSE "delay"]
       \/ /\ tk.pub.pc = "delay"
          /\ \E due \in {tk.pub.backup_due, TRUE} :
                tk' = [tk EXCEPT !.pub.pc = "loop", !.pub.backup_due = due,
                                 !.pub.elapsed = Min(@ + 1, ElapsedCap)]

(* a publisher that clears the flag and leaves last_data_publish alone *)
RunReset_KeepTimer ==
    /\ FrameTask /\ UNCHANGED mq
    /\ tk.pub.pc = "reset"
    /\ dev' = [dev EXCEPT !.interval_changed = FALSE]
    /\ tk' = [tk EXCEPT !.pub.pc = "data_due", !.accepted = FALSE]

(* task_mqtt_run: interval_changed = false; last_data_publish = now *)
RunReset ==
    /\ FrameTask /\ UNCHANGED mq
    /\ tk.pub.pc = "reset"
    /\ dev' = [dev EXCEPT !.interval_changed = FALSE]
    /\ tk' = [tk EXCEPT !.pub.pc = "data_due", !.pub.elapsed = 0, !.accepted = FALSE]

(* a data publish that hands the message over without the connection test *)
RunPublishSensorData_NoCheck ==
    /\ FrameTask /\ UNCHANGED <<mq, dev>>
    /\ \/ /\ tk.pub.pc = "data_take" /\ tk.owner = "none"
          /\ tk' = [tk EXCEPT !.pub.pc = "data_check"]
       \/ /\ tk.pub.pc = "data_check"
          /\ tk' = [tk EXCEPT !.pub.pc = "data_send"]
       \/ /\ tk.pub.pc = "data_send"
          /\ tk' = [tk EXCEPT !.pub.pc = "backup", !.pub.elapsed = 0, !.pub.ret = "ESP_OK"]

(* task_mqtt_publish_sensor_data(): the data callback between            *)
(* xSemaphoreTake(state_mutex, portMAX_DELAY) and the give, then         *)
(* mqtt_manager_publish_data(): the mqtt_connected test, then            *)
(* esp_mqtt_client_publish; task_mqtt_run sets last_data_publish = now   *)
RunPublishSensorData ==
    /\ FrameTask /\ UNCHANGED <<mq, dev>>
    /\ \/ /\ tk.pub.pc = "data_take" /\ tk.owner = "none"
          /\ tk' = [tk EXCEPT !.pub.pc = "data_check"]
       \/ /\ tk.pub.pc = "data_check"
          /\ tk' = IF mqtt_manager_is_connected(World)
                   THEN [tk EXCEPT !.pub.pc = "data_send"]
                   ELSE [tk EXCEPT !.pub.pc = "backup", !.pub.elapsed = 0,
                                   !.pub.ret = "ESP_ERR_INVALID_STATE"]
       \/ /\ tk.pub.pc = "data_send"
          /\ tk' = [tk EXCEPT !.pub.pc = "backup", !.pub.elapsed = 0, !.pub.ret = "ESP_OK"]

(* a state publish that does not re-derive the coordinator *)
RunSync_Skip ==
    /\ FrameTask /\ UNCHANGED <<mq, dev>>
    /\ \/ /\ tk.pub.pc = "pcs_conn"
          /\ tk' = IF ~mqtt_manager_is_connected(World)
                   THEN [tk EXCEPT !.pub = PubReturn("none")]
                   ELSE IF ~dev.initialized THEN [tk EXCEPT !.pub.pc = "pcs_take"]
                   ELSE [tk EXCEPT !.pub.pc = "pcs_sync", !.pub.hw = dev.devices,
                                   !.pub.fresh = TRUE]
       \/ /\ tk.pub.pc = "pcs_sync" /\ tk.owner = "none"
          /\ tk' = [tk EXCEPT !.pub.pc = "pcs_take"]
       \/ /\ tk.pub.pc = "pcs_sync" /\ tk.owner # "none"
          /\ tk' = [tk EXCEPT !.pub.pc = "pcs_take", !.pub.fresh = FALSE]

(* task_mqtt_publish_current_state(): the connection test, then           *)
(* task_mqtt_sync_device_states(): the three device_control_get_state     *)
(* calls, then the writes to device_state once state_mutex is taken; on   *)
(* the 100 ms timeout the synchronisation is skipped                      *)
RunSync ==
    /\ FrameTask /\ UNCHANGED mq
    /\ \/ /\ tk.pub.pc = "pcs_conn"
          /\ dev' = dev
          /\ tk' = IF ~mqtt_manager_is_connected(World)
                   THEN [tk EXCEPT !.pub = PubReturn("none")]
                   ELSE IF ~dev.initialized THEN [tk EXCEPT !.pub.pc = "pcs_take"]
                   ELSE [tk EXCEPT !.pub.pc = "pcs_sync", !.pub.hw = dev.devices,
                                   !.pub.fresh = TRUE]
       \/ /\ tk.pub.pc = "pcs_sync" /\ tk.owner = "none"
          /\ dev' = [dev EXCEPT !.device_state =
                                   Synced(@, dev.current_mode, tk.pub.hw)]
          /\ tk' = [tk EXCEPT !.pub.pc = "pcs_take"]
       \/ /\ tk.pub.pc = "pcs_sync" /\ tk.owner # "none"
          /\ dev' = dev
          /\ tk' = [tk EXCEPT !.pub.pc = "pcs_take", !.pub.fresh = FALSE]

(* task_mqtt_publish_current_state(): state_mutex taken within 100 ms,   *)
(* mode, interval and fan read; light and ac read and the mutex given;   *)
(* on the timeout the publish is skipped                                 *)
RunSnapshot ==
    /\ FrameTask /\ UNCHANGED <<mq, dev>>
    /\ \/ /\ tk.pub.pc = "pcs_take" /\ tk.owner = "none"
          /\ tk' = [tk EXCEPT !.owner = "pub", !.pub.pc = "pcs_rd2",
                              !.pub.snap.mode = dev.device_state.mode,
                              !.pub.snap.interval = dev.device_state.interval_sec,
                              !.pub.snap.fan = dev.device_state.fan]
       \/ /\ tk.pub.pc = "pcs_take" /\ tk.owner # "none"
          /\ tk' = [tk EXCEPT !.pub = PubReturn("none")]
       \/ /\ tk.pub.pc = "pcs_rd2"
          /\ tk' = [tk EXCEPT !.owner = "none", !.pub.pc = "pcs_check",
                              !.pub.snap.light = dev.device_state.light,
                              !.pub.snap.ac = dev.device_state.ac]

(* mqtt_manager_publish_state(): the mqtt_connected test, then *)
(* esp_mqtt_client_publish with the five values read           *)
RunPublishState ==
    /\ FrameTask /\ UNCHANGED <<mq, dev>>
    /\ \/ /\ tk.pub.pc = "pcs_check"
          /\ tk' = IF mqtt_manager_is_connected(World)
                   THEN [tk EXCEPT !.pub.pc = "pcs_send"]
                   ELSE [tk EXCEPT !.pub = PubReturn("ESP_ERR_INVALID_STATE")]
       \/ /\ tk.pub.pc = "pcs_send"
          /\ tk' = [tk EXCEPT !.pub = PubReturn("ESP_OK")]

(* the 100 ms waits of a handler's own state publish run out when *)
(* another task holds state_mutex                                 *)
HandlerEnv == CmdEnv(IF tk.owner = "none" THEN {} ELSE {"sync_take", "publish_take"})

(* MQTT_EVENT_CONNECTED and MQTT_EVENT_DISCONNECTED, delivered on the *)
(* transport's task between two commands                              *)
BrokerEvent ==
    /\ FrameTask /\ UNCHANGED <<dev, tk>>
    /\ tk.cmd.pc = "idle"
    /\ \/ /\ ~mq.mqtt_connected
          /\ mq' = mqtt_manager_event_handler(WithEnv(World, HandlerEnv),
                                              "MQTT_EVENT_CONNECTED", Garbage).mq
       \/ /\ mq.mqtt_connected
          /\ mq' = mqtt_manager_event_handler(World, "MQTT_EVENT_DISCONNECTED",
                                              Garbage).mq

(* a set_interval that stores the seconds and leaves g_interval_time_ms *)
CmdSetInterval_NoSync ==
    /\ FrameTask /\ UNCHANGED mq
    /\ \/ /\ tk.cmd.pc = "idle" /\ mq.mqtt_connected /\ tk.owner = "none"
          /\ \E interval \in {MIN_INTERVAL + 1, INTERVAL_TIME_MS \div 1000} :
                /\ dev' = [dev EXCEPT !.device_state.interval_sec = interval]
                /\ tk' = [tk EXCEPT !.owner = "cmd", !.cmd.pc = "si_w2",
                                    !.cmd.interval = interval]
       \/ /\ tk.cmd.pc = "si_w2"
          /\ dev' = dev
          /\ tk' = [tk EXCEPT !.cmd.pc = "si_w3"]
       \/ /\ tk.cmd.pc = "si_w3"
          /\ dev' = [dev EXCEPT !.interval_changed = TRUE]
          /\ tk' = [tk EXCEPT !.owner = "none", !.cmd.pc = "finish", !.accepted = TRUE]

(* task_mqtt_on_set_interval(cmd_id, interval) with an interval in range: *)
(* the three writes under state_mutex, one statement a step               *)
CmdSetInterval ==
    /\ FrameTask /\ UNCHANGED mq
    /\ \/ /\ tk.cmd.pc = "idle" /\ mq.mqtt_connected /\ tk.owner = "none"
          /\ \E interval \in {MIN_INTERVAL + 1, INTERVAL_TIME_MS \div 1000} :
                /\ dev' = [dev EXCEPT !.device_state.interval_sec = interval]
                /\ tk' = [tk EXCEPT !.owner = "cmd", !.cmd.pc = "si_w2",
                                    !.cmd.interval = interval]
       \/ /\ tk.cmd.pc = "si_w2"
          /\ dev' = [dev EXCEPT !.g_interval_time_ms = tk.cmd.interval * 1000]
          /\ tk' = [tk EXCEPT !.cmd.pc = "si_w3"]
       \/ /\ tk.cmd.pc = "si_w3"
          /\ dev' = [dev EXCEPT !.interval_changed = TRUE]
          /\ tk' = [tk EXCEPT !.owner = "none", !.cmd.pc = "finish", !.accepted = TRUE]

(* a set_devices that writes device_state without taking state_mutex *)
CmdSetDevices_NoMutex ==
    /\ FrameTask /\ UNCHANGED mq
    /\ \/ /\ tk.cmd.pc = "idle" /\ mq.mqtt_connected
          /\ \E v \in {0, 1} :
                /\ dev' = [dev EXCEPT !.device_state.fan = v]
                /\ tk' = [tk EXCEPT !.cmd.pc = "sd_w2", !.pub.fresh = FALSE,
                                    !.cmd.fan = v, !.cmd.light = v]
       \/ /\ tk.cmd.pc = "sd_w2"
          /\ dev' = [dev EXCEPT !.device_state.light = tk.cmd.light]
          /\ tk' = [tk EXCEPT !.cmd.pc = "sd_hw", !.pub.fresh = FALSE]
       \/ /\ tk.cmd.pc = "sd_hw"
          /\ dev' = device_control_set_state(
                        device_control_set_state(World, "fan", tk.cmd.fan),
                        "light", tk.cmd.light).dev
          /\ tk' = [tk EXCEPT !.cmd.pc = "finish", !.pub.fresh = FALSE]

(* task_mqtt_on_set_devices(cmd_id, fan, light, -1): the two writes to *)
(* device_state under state_mutex, then the two device_control_set_state *)
CmdSetDevices ==
    /\ FrameTask /\ UNCHANGED mq
    /\ \/ /\ tk.cmd.pc = "idle" /\ mq.mqtt_connected /\ tk.owner = "none"
          /\ \E v \in {0, 1} :
                /\ dev' = [dev EXCEPT !.device_state.fan = v]
                /\ tk' = [tk EXCEPT !.owner = "cmd", !.cmd.pc = "sd_w2",
                                    !.pub.fresh = FALSE,
                                    !.cmd.fan = v, !.cmd.light = v]
       \/ /\ tk.cmd.pc = "sd_w2"
          /\ dev' = [dev EXCEPT !.device_state.light = tk.cmd.light]
          /\ tk' = [tk EXCEPT !.owner = "none", !.cmd.pc = "sd_hw", !.pub.fresh = FALSE]
       \/ /\ tk.cmd.pc = "sd_hw"
          /\ dev' = device_control_set_state(
                        device_control_set_state(World, "fan", tk.cmd.fan),
                        "light", tk.cmd.light).dev
          /\ tk' = [tk EXCEPT !.cmd.pc = "finish", !.pub.fresh = FALSE]

(* the end of both handlers: mqtt_manager_publish_response(cmd_id,  *)
(* "success") and task_mqtt_publish_current_state()                 *)
CmdFinish ==
    /\ FrameTask /\ UNCHANGED mq
    /\ tk.cmd.pc = "finish"
    /\ dev' = task_mqtt_publish_current_state(
                  mqtt_manager_publish_response(WithEnv(World, HandlerEnv),
                                                "cmd", "success")).dev
    /\ tk' = [tk EXCEPT !.cmd = TkZero.cmd, !.pub.fresh = @ /\ Unwritten]

(* task_button.c, BUTTON_LIGHT: device_control_toggle(DEVICE_LIGHT), then *)
(* task_mqtt_publish_current_state()                                      *)
ButtonLight ==
    /\ FrameTask /\ UNCHANGED mq
    /\ dev' = task_mqtt_publish_current_state(
                  device_control_toggle(WithEnv(World, HandlerEnv), "light")).dev
    /\ tk' = [tk EXCEPT !.pub.fresh = @ /\ Unwritten]

NextTask ==
    \/ RunLoop
    \/ RunReset
    \/ RunPublishSensorData
    \/ RunSync
    \/ RunSnapshot
    \/ RunPublishState
    \/ BrokerEvent
    \/ CmdSetInterval
    \/ CmdSetDevices
    \/ CmdFinish
    \/ ButtonLight

(* the world after task_init() has initialised the hardware, the mode manager *)
(* and the MQTT layer                                                      *)
task_init(env, stored) ==
    task_mqtt_init(mqtt_manager_init(mode_manager_init(device_control_init(
        [ctx |-> CtxZero, glob |-> GlobZero, drv |-> DrvZero, nvs |-> NvsHome,
         mq |-> MqZero, dev |-> DevZero, trace |-> <<>>, ret |-> "ESP_OK",
         halt |-> "run", held |-> FALSE, env |-> env]), stored)))

InitTask ==
    /\ ctx = CtxZero /\ glob = GlobZero /\ drv = DrvZero /\ nvs = NvsHome
    /\ obs = ObsZero /\ tk = TkZero
    /\ \E env \in {CmdEnv({}), CmdEnv({"gpio_config"})}, stored \in {-1, 0} :
          /\ mq = task_init(env, stored).mq
          /\ dev = task_init(env, stored).dev

SpecTask == InitTask /\ [][NextTask]_vars

-----------------------------------------------------------------------------
(* The periodic publisher by the second: one step is one pass of the loop  *)
(* of task_mqtt_run followed by its vTaskDelay(pdMS_TO_TICKS(1000)). The    *)
(* locals last_data_publish and last_state_publish are kept as the whole   *)
(* seconds between them and the next reading of xTaskGetTickCount().       *)

STATE_BACKUP_INTERVAL == 60

(* task_mqtt_run: if (interval_changed) { interval_changed = false;        *)
(* last_data_publish = now; }                                              *)
ResetOnIntervalChange(w, pub) ==
    IF w.dev.interval_changed
    THEN [w |-> Log([w EXCEPT !.dev.interval_changed = FALSE], "log", "Interval timer reset"),
          pub |-> [pub EXCEPT !.elapsed = 0]]
    ELSE [w |-> w, pub |-> pub]

(* a publisher without the mode gate (the earlier revision of the loop) *)
PublishDataWhenDue_Ungated(w, pub) ==
    IF pub.elapsed * 1000 >= pub.current_interval_ms
    THEN [w |-> task_mqtt_publish_sensor_data(w),
          pub |-> [pub EXCEPT !.elapsed = 0, !.since_pub = 0]]
    ELSE [w |-> w, pub |-> pub]

(* a publisher that leaves last_data_publish alone when it skips *)
PublishDataWhenDue_KeepDue(w, pub) ==
    IF pub.elapsed * 1000 >= pub.current_interval_ms
    THEN IF w.dev.isModeON
         THEN [w |-> task_mqtt_publish_sensor_data(w),
               pub |-> [pub EXCEPT !.elapsed = 0, !.since_pub = 0]]
         ELSE [w |-> Log(w, "log", "Skipping sensor data publish - Mode is OFF"),
               pub |-> pub]
    ELSE [w |-> w, pub |-> pub]

(* task_mqtt_run: data_elapsed = now - last_data_publish; when it has      *)
(* reached the interval, publish if isModeON, else log the skip; then      *)
(* last_data_publish = now in both cases                                    *)
PublishDataWhenDue(w, pub) ==
    IF pub.elapsed * 1000 >= pub.current_interval_ms
    THEN IF w.dev.isModeON
         THEN [w |-> task_mqtt_publish_sensor_data(w),
               pub |-> [pub EXCEPT !.elapsed = 0, !.since_pub = 0]]
         ELSE [w |-> Log(w, "log", "Skipping sensor data publish - Mode is OFF"),
               pub |-> [pub EXCEPT !.elapsed = 0]]
    ELSE [w |-> w, pub |-> pub]

(* a backup that is made only while the mode is ON *)
PublishStateBackup_ModeGated(w, pub) ==
    IF pub.state_elapsed >= STATE_BACKUP_INTERVAL /\ w.dev.isModeON
    THEN [w |-> task_mqtt_publish_current_state(Log(w, "log", "state backup")),
          pub |-> [pub EXCEPT !.state_elapsed = 0]]
    ELSE [w |-> w, pub |-> pub]

(* task_mqtt_run: state_elapsed = now - last_state_publish; when it has    *)
(* reached STATE_BACKUP_INTERVAL * 1000 ms, task_mqtt_publish_current_state *)
(* and last_state_publish = now                                             *)
PublishStateBackup(w, pub) ==
    IF pub.state_elapsed >= STATE_BACKUP_INTERVAL
    THEN [w |-> task_mqtt_publish_current_state(Log(w, "log", "state backup")),
          pub |-> [pub EXCEPT !.state_elapsed = 0]]
    ELSE [w |-> w, pub |-> pub]

(* task_mqtt_run: one pass of the body of while (1) before the delay *)
task_mqtt_run(w, pub) ==
    IF ~mqtt_manager_is_connected(w) THEN [w |-> w, pub |-> pub]
    ELSE LET p0 == [pub EXCEPT !.current_interval_ms = w.dev.g_interval_time_ms]
             r1 == ResetOnIntervalChange(w, p0)
             r2 == PublishDataWhenDue(r1.w, r1.pub)
         IN PublishStateBackup(r2.w, r2.pub)

(* vTaskDelay(pdMS_TO_TICKS(1000)): a second later; a count that has       *)
(* reached its threshold need not grow further                              *)
vTaskDelay(pub) ==
    [pub EXCEPT !.elapsed = Min(@ + 1, ElapsedCap),
                !.since_pub = Min(@ + 1, ElapsedCap),
                !.state_elapsed = Min(@ + 1, STATE_BACKUP_INTERVAL)]

TickEnvs == {CmdEnv({}), CmdEnv({"publish_take"})}

Tick ==
    /\ CmdBooted /\ dev.delayed = "none"
    /\ \E env \in TickEnvs :
          LET r == task_mqtt_run(WithEnv(World, env), tk.pub)
          IN /\ Outcome("task_mqtt_run", EMPTY, obs.pc, r.w)
             /\ tk' = [tk EXCEPT !.pub = vTaskDelay(r.pub)]

TickMessages ==
    {Cmd("set_interval", JObj([NoMembers EXCEPT !.interval = JNum(i)])) :
        i \in {MIN_INTERVAL + 1, INTERVAL_TIME_MS \div 1000}}

(* a set_interval command arrives between two passes of the loop *)
TickCommand ==
    /\ CmdBooted /\ mq.mqtt_connected /\ dev.delayed = "none"
    /\ \E msg \in TickMessages :
          Commit("MQTT_EVENT_DATA", msg, obs.pc,
                 mqtt_manager_event_handler(WithEnv(World, CmdEnv({})), "MQTT_EVENT_DATA", msg))

NextTick ==
    \/ Tick
    \/ TickCommand
    \/ ButtonMode
    \/ MqttConnectedEvent
    \/ MqttDisconnectedEvent

InitTick == InitTask /\ dev.initialized

SpecTick == InitTick /\ [][NextTick]_vars

(* The recurrence of the telemetry does not depend on last_state_publish:  *)
(* for it, a pass of the loop may find the backup window expired or not,    *)
(* whatever the time, which covers every value the count can have.         *)
TickAnyWindow ==
    /\ CmdBooted /\ dev.delayed = "none"
    /\ \E env \in TickEnvs, window \in {0, STATE_BACKUP_INTERVAL} :
          LET r == task_mqtt_run(WithEnv(World, env),
                                 [tk.pub EXCEPT !.state_elapsed = window])
          IN /\ Outcome("task_mqtt_run", EMPTY, obs.pc, r.w)
             /\ tk' = [tk EXCEPT !.pub = [vTaskDelay(r.pub) EXCEPT !.state_elapsed = 0]]

NextTickLive ==
    \/ TickAnyWindow
    \/ TickCommand
    \/ ButtonMode
    \/ MqttConnectedEvent
    \/ MqttDisconnectedEvent

(* the publisher task is never starved: FreeRTOS wakes it when its delay   *)
(* of one second has expired                                                *)
SpecTickLive == InitTick /\ [][NextTickLive]_vars /\ WF_vars(TickAnyWindow)

-----------------------------------------------------------------------------
(* The WiFi component and the MQTT client together as task_init() wires    *)
(* them: task_init_wifi(), then task_init_mqtt(), while the event loop     *)
(* task delivers the driver's events, the first of which can come before   *)
(* task_init_mqtt() has run.                                               *)

(* task_init_mqtt(): mqtt_manager_init(), its result only logged, then     *)
(* task_mqtt_init()                                                        *)
BootMqttClient ==
    /\ Up /\ obs.pc = "started" /\ mq.command_callback = "NULL"
    /\ \E env \in MqttInitEnvs :
          Commit("task_init_mqtt", EMPTY, obs.pc,
                 task_mqtt_init(mqtt_manager_init(WithEnv(World, env))))

NextSession ==
    \/ BootInit \/ BootRegister \/ BootStart
    \/ BootMqttClient
    \/ StaStartEvent \/ DisconnectedEvent \/ GotIpEvent
    \/ Reboot

SpecSession == Init /\ [][NextSession]_vars

-----------------------------------------------------------------------------
(* The event loop task in wifi_event_handler and the application's         *)
(* callback, against task_wifi_set_wifi_connecting_task, which blinks the  *)
(* WiFi LED through isWiFi while isWiFiConnecting is set. The globals are   *)
(* plain bools that no lock covers; every read and write is a step.        *)

(* wifi_event_handler, IP_EVENT_STA_GOT_IP up to xSemaphoreGive *)
GotIpUnderMutex(w) ==
    IF ~Running(w) THEN w
    ELSE xSemaphoreGive(
             Log(Log([w EXCEPT !.ctx.retry_count = 0,
                               !.ctx.state = "CONNECTED",
                               !.glob.isWiFi = TRUE],
                     "state", "CONNECTED"),
                 "bits", "WIFI_CONNECTED_BIT"))

EvGotIpHandler ==
    /\ Up /\ tk.ev = "idle" /\ drv.reg_ip
    /\ drv.link # "down" /\ drv.sta_cfg # EMPTY
    /\ Outcome("GOT_IP", EMPTY, obs.pc,
               GotIpUnderMutex(xSemaphoreTake([World EXCEPT !.drv.link = "up"])))
    /\ tk' = [tk EXCEPT !.ev = "callback"]

(* callback(WIFI_EVENT_GOT_IP, event_data), made after the mutex is given *)
EvGotIpCallback ==
    /\ Up /\ tk.ev = "callback"
    /\ \E env \in GotIpEnvs :
          Outcome("GOT_IP callback", EMPTY, obs.pc,
                  InvokeCallback(WithEnv(World, env), ctx.callback, "GOT_IP"))
    /\ tk' = [tk EXCEPT !.ev = "idle"]

(* task_wifi_set_wifi_connecting_task: if (isWiFiConnecting)               *)
(* isWiFi = !isWiFi; then vTaskDelay                                        *)
WifiConnectingTask ==
    /\ Up /\ obs.pc = "started"
    /\ UNCHANGED <<ctx, drv, nvs, mq, dev, obs>>
    /\ \/ /\ tk.blink.pc = "test" /\ glob.isWiFiConnecting
          /\ glob' = glob
          /\ tk' = [tk EXCEPT !.blink.pc = "read"]
       \/ /\ tk.blink.pc = "read"
          /\ glob' = glob
          /\ tk' = [tk EXCEPT !.blink.pc = "write", !.blink.seen = glob.isWiFi]
       \/ /\ tk.blink.pc = "write"
          /\ glob' = [glob EXCEPT !.isWiFi = ~tk.blink.seen]
          /\ tk' = [tk EXCEPT !.blink.pc = "test", !.blink.seen = FALSE]

(* the event loop task handles one event at a time *)
EvStaStart == tk.ev = "idle" /\ StaStartEvent
EvDisconnected == tk.ev = "idle" /\ DisconnectedEvent

NextBlink ==
    \/ BootInit \/ BootRegister \/ BootStart
    \/ EvStaStart
    \/ EvDisconnected
    \/ EvGotIpHandler
    \/ EvGotIpCallback
    \/ WifiConnectingTask
    \/ Reboot

SpecBlink == Init /\ [][NextBlink]_vars

-----------------------------------------------------------------------------
(* The four mutexes and the tasks that use them. An operation is reduced   *)
(* to the takes and gives it makes, in program order, nested calls         *)
(* included: g_wifi_ctx.mutex ("wifi"), state_mutex ("state"), data_mutex  *)
(* of shared_sensor.c ("data") and the mutex of device_control.c           *)
(* ("device"). All are created with xSemaphoreCreateMutex(): not           *)
(* recursive.                                                              *)

Mutexes == {"wifi", "state", "data", "device"}
LockTasks == {"main", "event", "mqtt", "publisher", "sensor"}

(* xSemaphoreTake(m, portMAX_DELAY), xSemaphoreTake(m, pdMS_TO_TICKS(100)) *)
(* and xSemaphoreGive(m)                                                   *)
Take(m) == [a |-> "take", m |-> m]
TakeTimed(m) == [a |-> "timed", m |-> m]
Give(m) == [a |-> "give", m |-> m]

LocksIsConnected == <<Take("wifi"), Give("wifi")>>
(* wifi_manager_get_ip_info(): wifi_manager_is_connected() *)
LocksGetIpInfo == LocksIsConnected

(* a callback that asks wifi_manager_is_connected() on every event *)
LocksCallback_Reentrant(event) == LocksIsConnected

(* task_wifi_event_callback: only the GOT_IP branch calls into the         *)
(* component, wifi_manager_get_ip_info()                                   *)
LocksCallback(event) == IF event = "GOT_IP" THEN LocksGetIpInfo ELSE <<>>

(* wifi_manager_connect(): the CONNECTING callback is made before the give *)
LocksConnect == <<Take("wifi")>> \o LocksCallback("CONNECTING") \o <<Give("wifi")>>
(* wifi_manager_start_provisioning(): likewise PROVISIONING_STARTED *)
LocksStartProvisioning ==
    <<Take("wifi")>> \o LocksCallback("PROVISIONING_STARTED") \o <<Give("wifi")>>
LocksClearCredentials == <<Take("wifi"), Give("wifi")>>

(* wifi_event_handler: the callbacks are made after the give; the          *)
(* escalation then calls clear_credentials() and start_provisioning()      *)
LocksEventHandler(branch) ==
    <<Take("wifi"), Give("wifi")>>
    \o (IF branch = "ignored" THEN <<>>
        ELSE IF branch = "retry" THEN LocksCallback("DISCONNECTED")
        ELSE IF branch = "escalate"
             THEN LocksCallback("DISCONNECTED") \o LocksClearCredentials
                  \o LocksStartProvisioning
        ELSE LocksCallback("GOT_IP"))

(* shared_sensor_data_get() and shared_sensor_data_update() *)
LocksSharedSensor == <<TakeTimed("data"), Give("data")>>
(* device_control_get_state(), device_control_set_state(),                 *)
(* device_control_toggle()                                                 *)
LocksDeviceControl == <<Take("device"), Give("device")>>

(* task_mqtt_publish_sensor_data(): the data_publish callback,             *)
(* task_mqtt_on_data_publish -> shared_sensor_data_get(), runs inside      *)
(* state_mutex                                                             *)
LocksPublishSensorData == <<Take("state")>> \o LocksSharedSensor \o <<Give("state")>>
(* task_mqtt_sync_device_states(): three device_control_get_state(), then  *)
(* the timed take                                                          *)
LocksSyncDeviceStates ==
    LocksDeviceControl \o LocksDeviceControl \o LocksDeviceControl
    \o <<TakeTimed("state"), Give("state")>>
LocksPublishCurrentState == LocksSyncDeviceStates \o <<TakeTimed("state"), Give("state")>>
(* task_mqtt_publish_info_data(): task_mqtt_get_current_ip() *)
LocksPublishInfoData == LocksGetIpInfo
(* task_mqtt_on_set_device() *)
LocksSetDevice ==
    <<Take("state"), Give("state")>> \o LocksDeviceControl \o LocksPublishCurrentState
(* task_mqtt_on_get_status() *)
LocksGetStatus == LocksPublishSensorData \o LocksPublishCurrentState \o LocksPublishInfoData

(* what each task runs: task_init_wifi() on the main task, the event loop  *)
(* task, the MQTT transport task (commands and the connected event),       *)
(* task_mqtt_run, and the sensor loop of task_mode.c                       *)
LockOps(t) ==
    IF t = "main" THEN {LocksConnect, LocksStartProvisioning, LocksIsConnected}
    ELSE IF t = "event"
         THEN {LocksEventHandler(b) : b \in {"ignored", "retry", "escalate", "got_ip"}}
    ELSE IF t = "mqtt" THEN {LocksSetDevice, LocksGetStatus, LocksPublishInfoData}
    ELSE IF t = "publisher" THEN {LocksPublishSensorData, LocksPublishCurrentState}
    ELSE {LocksSharedSensor}

(* after a timed take has run out the code skips to behind the give *)
RECURSIVE SkipSection(_, _)
SkipSection(seq, m) ==
    IF seq = <<>> THEN <<>>
    ELSE IF Head(seq) = Give(m) THEN Tail(seq)
    ELSE SkipSection(Tail(seq), m)

FrameLock == UNCHANGED <<ctx, glob, drv, nvs, mq, dev, obs>>

LockBegin ==
    /\ FrameLock
    /\ \E t \in LockTasks :
          /\ tk.todo[t] = <<>>
          /\ \E op \in LockOps(t) : tk' = [tk EXCEPT !.todo[t] = op]

LockTake ==
    /\ FrameLock
    /\ \E t \in LockTasks :
          /\ tk.todo[t] # <<>>
          /\ Head(tk.todo[t]).a \in {"take", "timed"}
          /\ tk.holder[Head(tk.todo[t]).m] = "none"
          /\ tk' = [tk EXCEPT !.holder[Head(tk.todo[t]).m] = t,
                              !.todo[t] = Tail(@)]

LockTimeout ==
    /\ FrameLock
    /\ \E t \in LockTasks :
          /\ tk.todo[t] # <<>>
          /\ Head(tk.todo[t]).a = "timed"
          /\ tk.holder[Head(tk.todo[t]).m] # "none"
          /\ tk' = [tk EXCEPT !.todo[t] = SkipSection(Tail(@), Head(tk.todo[t]).m)]

LockGive ==
    /\ FrameLock
    /\ \E t \in LockTasks :
          /\ tk.todo[t] # <<>>
          /\ Head(tk.todo[t]).a = "give"
          /\ tk' = [tk EXCEPT !.holder[Head(tk.todo[t]).m] = "none",
                              !.todo[t] = Tail(@)]

NextLock == LockBegin \/ LockTake \/ LockTimeout \/ LockGive

SpecLock == Init /\ [][NextLock]_vars

-----------------------------------------------------------------------------
(* Reading the effect trace of the last operation *)

Has(trace, k, v) == \E i \in 1..Len(trace) : trace[i].k = k /\ trace[i].v = v
Count(trace, k, v) ==
    Cardinality({i \in 1..Len(trace) : trace[i].k = k /\ trace[i].v = v})
(* the position of the first such entry, 0 when there is none *)
Pos(trace, k, v) ==
    IF Has(trace, k, v)
    THEN CHOOSE i \in 1..Len(trace) :
            /\ trace[i].k = k /\ trace[i].v = v
            /\ \A j \in 1..(i - 1) : ~(trace[j].k = k /\ trace[j].v = v)
    ELSE 0
(* every call the operation made to the platform succeeded *)
Nominal(trace) == \A i \in 1..Len(trace) : trace[i].k # "fail"
CallbackEvents(trace) == {trace[i].v : i \in {j \in 1..Len(trace) : trace[j].k = "cb"}}
Stored(key) == IF key \in DOMAIN nvs THEN nvs[key] ELSE EMPTY

-----------------------------------------------------------------------------
(* C1 as stated: after the third consecutive disconnect of a provisioned   *)
(* machine that was Connecting or Connected, the state is Provisioning,    *)
(* exactly one ProvisioningStarted was fired and the credentials are gone. *)
C1_ThirdDisconnectEscalates ==
    (obs.op = "STA_DISCONNECTED" /\ obs.streak_prov /\ obs.consec = WIFI_RECONNECT_MAX)
    => /\ ctx.state = "PROVISIONING"
       /\ obs.streak_ps = 1
       /\ ~ctx.provisioned

(* C1: counting consecutive disconnect events (no GotIP between them) from *)
(* a provisioned machine that was Connecting or Connected, each of the     *)
(* first WIFI_RECONNECT_MAX is retried: the state is Disconnected, the     *)
(* retry counter equals the number of disconnects, no ProvisioningStarted  *)
(* was fired and the credentials are kept.  The next one                   *)
(* (WIFI_RECONNECT_MAX + 1), when the calls it makes to the store and the  *)
(* driver succeed, ends in Provisioning with exactly one                   *)
(* ProvisioningStarted fired and the credentials cleared in memory and in  *)
(* the store.  A GotIP event leaves the retry counter 0 and the state      *)
(* Connected, with no ProvisioningStarted.                                 *)
C1_EscalatesAfterMaxRetries ==
    /\ (obs.op = "STA_DISCONNECTED" /\ obs.streak_prov
            /\ obs.consec \in 1..WIFI_RECONNECT_MAX)
       => /\ ctx.state = "DISCONNECTED"
          /\ ctx.retry_count = obs.consec
          /\ obs.streak_ps = 0
          /\ ctx.provisioned /\ ctx.ssid # EMPTY
    /\ (obs.op = "STA_DISCONNECTED" /\ obs.streak_prov
            /\ obs.consec = WIFI_RECONNECT_MAX + 1 /\ Nominal(obs.trace))
       => /\ ctx.state = "PROVISIONING"
          /\ obs.streak_ps = 1
          /\ ~ctx.provisioned /\ ctx.ssid = EMPTY /\ ctx.password = EMPTY
          /\ DOMAIN nvs = {}
    /\ obs.op = "GOT_IP"
       => /\ ctx.retry_count = 0
          /\ ctx.state = "CONNECTED"
          /\ ~Has(obs.trace, "cb", "PROVISIONING_STARTED")

C1_Witness ==
    /\ obs.op = "STA_DISCONNECTED" /\ obs.streak_prov
    /\ obs.consec = WIFI_RECONNECT_MAX + 1 /\ Nominal(obs.trace)
    /\ ctx.state = "PROVISIONING" /\ obs.streak_ps = 1 /\ DOMAIN nvs = {}

(* C2: a disconnect event delivered while the state is Provisioning leaves *)
(* the state, the retry counter, the credentials (in memory and in the     *)
(* store) and every other field of the context unchanged, fires no         *)
(* callback and calls nothing, so no reconnect attempt is made.            *)
C2_DisconnectIgnoredInProvisioning ==
    [][(obs'.op = "STA_DISCONNECTED" /\ ctx.state = "PROVISIONING")
       => /\ ctx' = ctx
          /\ glob' = glob
          /\ nvs' = nvs
          /\ obs'.trace = <<>>
          /\ obs'.halt = "run"]_vars

C2_Witness ==
    /\ obs.op = "STA_DISCONNECTED" /\ ctx.state = "PROVISIONING"
    /\ obs.trace = <<>> /\ drv.link = "down" /\ drv.server

(* C3: the retry counter is always in 0..WIFI_RECONNECT_MAX; a disconnect  *)
(* event outside Provisioning adds exactly one to it when it is below      *)
(* WIFI_RECONNECT_MAX and leaves it alone otherwise; a disconnect event in *)
(* Provisioning leaves it alone; every GotIP event sets it to 0.           *)
C3_RetryCounterBounded ==
    /\ [](ctx.retry_count \in 0..WIFI_RECONNECT_MAX)
    /\ [][/\ (obs'.op = "STA_DISCONNECTED" /\ ctx.state # "PROVISIONING")
             => ctx'.retry_count = IF ctx.retry_count < WIFI_RECONNECT_MAX
                                   THEN ctx.retry_count + 1 ELSE ctx.retry_count
          /\ (obs'.op = "STA_DISCONNECTED" /\ ctx.state = "PROVISIONING")
             => ctx'.retry_count = ctx.retry_count
          /\ obs'.op = "GOT_IP" => ctx'.retry_count = 0]_vars

C3_Witness ==
    /\ obs.op = "STA_DISCONNECTED" /\ ctx.retry_count = WIFI_RECONNECT_MAX
    /\ Has(obs.trace, "bits", "WIFI_FAIL_BIT")

(* C4: a disconnect event outside Provisioning that is not retried issues  *)
(* no reconnect attempt and, when the calls it makes to the store and the  *)
(* driver succeed, does these once each and in this order: erases the      *)
(* credentials in the store, clears the in-memory copy (provisioned =      *)
(* false), stops the station, sets the state to Provisioning, fires        *)
(* ProvisioningStarted.                                                    *)
C4_EscalationOrder ==
    [][(obs'.op = "STA_DISCONNECTED" /\ ctx.state # "PROVISIONING"
            /\ ~(ctx.retry_count < WIFI_RECONNECT_MAX))
       => LET t == obs'.trace
          IN /\ ~Has(t, "drv", "esp_wifi_connect")
             /\ Nominal(t)
                => /\ Count(t, "nvs", "erased") = 1
                   /\ Count(t, "mem", "cleared") = 1
                   /\ Count(t, "drv", "esp_wifi_stop") = 1
                   /\ Count(t, "state", "PROVISIONING") = 1
                   /\ Count(t, "cb", "PROVISIONING_STARTED") = 1
                   /\ Pos(t, "nvs", "erased") < Pos(t, "mem", "cleared")
                   /\ Pos(t, "mem", "cleared") < Pos(t, "drv", "esp_wifi_stop")
                   /\ Pos(t, "drv", "esp_wifi_stop") < Pos(t, "state", "PROVISIONING")
                   /\ Pos(t, "state", "PROVISIONING")
                         < Pos(t, "cb", "PROVISIONING_STARTED")
                   /\ DOMAIN nvs' = {}
                   /\ ctx'.ssid = EMPTY /\ ctx'.password = EMPTY /\ ~ctx'.provisioned
                   /\ ctx'.state = "PROVISIONING"]_vars

C4_Witness ==
    /\ obs.op = "STA_DISCONNECTED" /\ Has(obs.trace, "bits", "WIFI_FAIL_BIT")
    /\ Nominal(obs.trace)
    /\ Pos(obs.trace, "drv", "esp_wifi_stop") < Pos(obs.trace, "cb", "PROVISIONING_STARTED")
    /\ Has(obs.trace, "nvs", "erased")

(* C5: every invocation of the registered callback is made while the       *)
(* invoking task does not hold the connection mutex.                       *)
C5_CallbacksOutsideMutex ==
    \A i \in 1..Len(obs.trace) : obs.trace[i].k = "cb" => ~obs.trace[i].locked

(* C6 as stated: after a retried disconnect the recorded state is          *)
(* Connecting.                                                             *)
C6_RetryEntersConnecting ==
    [][(obs'.op = "STA_DISCONNECTED" /\ ctx.state # "PROVISIONING"
            /\ ctx.retry_count < WIFI_RECONNECT_MAX)
       => ctx'.state = "CONNECTING"]_vars

(* C6: after a disconnect event outside Provisioning with the retry        *)
(* counter below WIFI_RECONNECT_MAX, the recorded state is Disconnected    *)
(* (it is not set back to Connecting), the retry counter is one higher,    *)
(* exactly one driver reconnect has been issued and the only callback      *)
(* fired is Disconnected, once if a callback is registered.                *)
C6_RetriedDisconnect ==
    [][(obs'.op = "STA_DISCONNECTED" /\ ctx.state # "PROVISIONING"
            /\ ctx.retry_count < WIFI_RECONNECT_MAX)
       => LET t == obs'.trace
          IN /\ ctx'.state = "DISCONNECTED"
             /\ ctx'.retry_count = ctx.retry_count + 1
             /\ Count(t, "drv", "esp_wifi_connect") = 1
             /\ CallbackEvents(t) \subseteq {"DISCONNECTED"}
             /\ Count(t, "cb", "DISCONNECTED") = IF ctx.callback = "NULL" THEN 0 ELSE 1
             /\ ~Has(t, "state", "CONNECTING")]_vars

C6_Witness ==
    /\ obs.op = "STA_DISCONNECTED" /\ ctx.state = "DISCONNECTED"
    /\ Count(obs.trace, "drv", "esp_wifi_connect") = 1
    /\ CallbackEvents(obs.trace) = {"DISCONNECTED"}
    /\ ctx.retry_count = 2

(* C7 as stated: connect() moves the state to Connecting only when the     *)
(* machine is Idle and the SSID is non-empty.                              *)
C7_ConnectOnlyFromIdle ==
    [][(obs'.op = "connect" /\ Has(obs'.trace, "state", "CONNECTING"))
       => ctx.state = "IDLE" /\ obs'.arg # EMPTY]_vars

(* C7: connect(ssid, password) sets the state to Connecting exactly when   *)
(* the component is initialized, ssid is not null and the three driver     *)
(* calls succeed, whatever the state was and also for an empty SSID; it    *)
(* then returns success with the retry counter 0.  Otherwise it returns an *)
(* error and leaves the state unchanged.                                   *)
C7_ConnectFromAnyState ==
    [][obs'.op = "connect"
       => LET moved == Has(obs'.trace, "state", "CONNECTING")
          IN /\ moved <=> (ctx.initialized /\ obs'.arg # NULL /\ Nominal(obs'.trace))
             /\ moved => /\ ctx'.state = "CONNECTING"
                         /\ ctx'.retry_count = 0
                         /\ obs'.ret = "ESP_OK"
             /\ ~moved => /\ ctx'.state = ctx.state
                          /\ obs'.ret # "ESP_OK"]_vars

C7_Witness ==
    /\ obs.op = "connect" /\ obs.arg = EMPTY /\ obs.ret = "ESP_OK"
    /\ ctx.state = "CONNECTING" /\ Has(obs.trace, "state", "CONNECTING")

(* C8: provisioned credentials always have a non-empty SSID, and start()   *)
(* on an initialized component calls connect with the stored SSID when     *)
(* provisioned and startProvisioning otherwise, never both.  When the      *)
(* driver calls succeed the connect path ends in Connecting with the       *)
(* stored SSID configured, and the other path goes from Idle at boot to    *)
(* Provisioning without the state ever being set to Connecting.            *)
C8_StartDispatch ==
    /\ [](ctx.provisioned => ctx.ssid # EMPTY)
    /\ [][(obs'.op = "start" /\ ctx.initialized)
          => LET t == obs'.trace
             IN /\ ctx.provisioned
                   => /\ t[1] = [k |-> "call", v |-> "wifi_manager_connect",
                                 locked |-> FALSE]
                      /\ ~Has(t, "call", "wifi_manager_start_provisioning")
                      /\ Nominal(t) => /\ ctx'.state = "CONNECTING"
                                       /\ drv'.sta_cfg = ctx.ssid
                /\ ~ctx.provisioned
                   => /\ t[1] = [k |-> "call", v |-> "wifi_manager_start_provisioning",
                                 locked |-> FALSE]
                      /\ ~Has(t, "call", "wifi_manager_connect")
                      /\ ~Has(t, "state", "CONNECTING")
                      /\ (Nominal(t) /\ obs.pc = "registered")
                         => ctx.state = "IDLE" /\ ctx'.state = "PROVISIONING"]_vars

C8_Witness ==
    /\ obs.op = "start" /\ obs.boots = 0 /\ DOMAIN nvs = {}
    /\ ctx.state = "PROVISIONING" /\ ~Has(obs.trace, "state", "CONNECTING")
    /\ Has(obs.trace, "call", "wifi_manager_start_provisioning")

(* C9: a POST /connect that triggers the restart has first persisted the   *)
(* submitted SSID and password with provisioned = 1; a POST /connect whose *)
(* save fails triggers no restart and leaves the context (state included)  *)
(* unchanged.  On any boot, an init() whose calls succeed loads the stored *)
(* credentials, and start() with them loaded takes the connect path: with  *)
(* the driver calls succeeding the state is Connecting and the station is  *)
(* configured with the stored SSID.                                        *)
C9_PersistThenRestart ==
    /\ [](obs.op = "POST /connect" /\ Has(obs.trace, "call", "esp_restart")
          => /\ Has(obs.trace, "nvs", "saved")
             /\ Pos(obs.trace, "nvs", "saved") < Pos(obs.trace, "call", "esp_restart")
             /\ obs.arg # EMPTY /\ Stored("ssid") = obs.arg
             /\ Stored("password") = Secret
             /\ "provisioned" \in DOMAIN nvs /\ nvs["provisioned"] = 1)
    /\ [][(obs'.op = "POST /connect" /\ ~Has(obs'.trace, "nvs", "saved"))
          => /\ ~Has(obs'.trace, "call", "esp_restart")
             /\ obs'.halt = "run"
             /\ ctx' = ctx]_vars
    /\ []((obs.op = "init" /\ obs.pc = "inited" /\ Nominal(obs.trace)
             /\ "provisioned" \in DOMAIN nvs /\ nvs["provisioned"] = 1)
          => /\ obs.ret = "ESP_OK"
             /\ ctx.provisioned
             /\ ctx.ssid = Stored("ssid") /\ ctx.password = Stored("password"))
    /\ []((obs.op = "start" /\ obs.pc = "started" /\ Nominal(obs.trace)
             /\ ctx.provisioned /\ ctx.ssid = Stored("ssid"))
          => /\ ctx.state = "CONNECTING"
             /\ drv.sta_cfg = Stored("ssid")
             /\ obs.trace[1].v = "wifi_manager_connect")

C9_Witness ==
    /\ obs.op = "start" /\ obs.boots = 1 /\ Stored("ssid") = Cafe
    /\ ctx.state = "CONNECTING" /\ drv.sta_cfg = Cafe

(* C10: init() called on a component that is already initialized returns   *)
(* success and changes nothing: it creates no mutex and no event group,    *)
(* registers no handler, calls nothing, and leaves the context (state,     *)
(* retry counter, credentials), the driver and the store as they were.     *)
C10_SecondInitNoOp ==
    [][(obs'.op = "init" /\ ctx.initialized)
       => /\ obs'.ret = "ESP_OK"
          /\ obs'.trace = <<>>
          /\ ctx' = ctx
          /\ glob' = glob
          /\ drv' = drv
          /\ nvs' = nvs]_vars

C10_Witness ==
    /\ obs.op = "init" /\ obs.pc = "started" /\ ctx.initialized
    /\ obs.ret = "ESP_OK" /\ obs.trace = <<>> /\ ctx.state # "IDLE"

(* C12: after a failed init() the component stays uninitialized, start(),  *)
(* connect() and startProvisioning() return InvalidState, and the          *)
(* registerEventCallback call the boot sequence makes next runs on a       *)
(* mutex that exists (neither never created nor already deleted) and       *)
(* returns to its caller.                                                  *)
C12_DegradedBoot ==
    /\ (obs.op = "init" /\ obs.ret # "ESP_OK") => ~ctx.initialized
    /\ (obs.op \in {"start", "connect", "start_provisioning"} /\ ~ctx.initialized
           /\ obs.halt = "run")
       => obs.ret = "ESP_ERR_INVALID_STATE"
    /\ (obs.op = "register_callback" /\ obs.pc = "registered" /\ ~ctx.initialized)
       => ctx.mutex = "valid" /\ obs.halt = "run"

(* the driver refused to bring up the access point during this operation *)
ApStartFailed(trace) ==
    \E c \in {"set_mode", "set_config", "wifi_start"} : Has(trace, "fail", c)
(* the store refused the erase during this operation *)
EraseFailed(trace) == Has(trace, "fail", "nvs_open") \/ Has(trace, "fail", "nvs_commit")

(* C13: when the access point cannot be started during an escalation, no   *)
(* ProvisioningStarted is fired, no reconnect is issued, the state is left *)
(* Disconnected with the driver stopped, and the credentials are cleared   *)
(* (when their erase succeeded).  From then on, until a restart, the state *)
(* stays Disconnected (never Provisioning or Connected), the driver stays  *)
(* stopped, no operation issues a connection attempt, and only a portal    *)
(* submission changes the credentials.                                     *)
C13_ApStartFailure ==
    /\ [][(obs'.op = "STA_DISCONNECTED" /\ ctx.state # "PROVISIONING"
              /\ ~(ctx.retry_count < WIFI_RECONNECT_MAX) /\ ApStartFailed(obs'.trace))
          => /\ ~Has(obs'.trace, "cb", "PROVISIONING_STARTED")
             /\ ~Has(obs'.trace, "drv", "esp_wifi_connect")
             /\ ctx'.state = "DISCONNECTED"
             /\ ~drv'.started /\ drv'.link = "down" /\ ~drv'.sta_start_pending
             /\ ~EraseFailed(obs'.trace)
                => /\ ~ctx'.provisioned /\ ctx'.ssid = EMPTY /\ ctx'.password = EMPTY
                   /\ DOMAIN nvs' = {}]_vars
    /\ [][(ctx.state = "DISCONNECTED" /\ ~drv.started /\ obs'.boots = obs.boots)
          => /\ ctx'.state = "DISCONNECTED"
             /\ ~drv'.started /\ drv'.link = "down"
             /\ ~Has(obs'.trace, "drv", "esp_wifi_connect")
             /\ ~Has(obs'.trace, "cb", "PROVISIONING_STARTED")
             /\ obs'.op # "POST /connect"
                => /\ ~ctx'.provisioned \/ ctx.provisioned
                   /\ ctx'.ssid \in {ctx.ssid, EMPTY}]_vars

C13_Witness ==
    /\ obs.op = "STA_DISCONNECTED" /\ Has(obs.trace, "bits", "WIFI_FAIL_BIT")
    /\ Has(obs.trace, "fail", "wifi_start") /\ ~EraseFailed(obs.trace)
    /\ ctx.state = "DISCONNECTED" /\ ~drv.started /\ ~ctx.provisioned

(* a step taken after such a failed escalation *)
C13_WitnessAfter ==
    /\ obs.op = "POST /connect" /\ obs.halt = "run"
    /\ ctx.state = "DISCONNECTED" /\ ~drv.started

StoredIn(store, key) == IF key \in DOMAIN store THEN store[key] ELSE EMPTY

(* C14: saveCredentials and clearCredentials leave the in-memory           *)
(* credentials unchanged when they fail, and after a success the           *)
(* in-memory ssid, password and provisioned flag equal what the store      *)
(* holds (nothing stored: empty strings and provisioned = false).          *)
C14_MemoryMirrorsStore ==
    [][(obs'.op \in {"save_credentials", "clear_credentials"} /\ obs'.halt = "run")
       => IF obs'.ret = "ESP_OK"
          THEN /\ ctx'.ssid = StoredIn(nvs', "ssid")
               /\ ctx'.password = StoredIn(nvs', "password")
               /\ ctx'.provisioned
                     = ("provisioned" \in DOMAIN nvs' /\ nvs'["provisioned"] = 1)
          ELSE /\ ctx'.ssid = ctx.ssid
               /\ ctx'.password = ctx.password
               /\ ctx'.provisioned = ctx.provisioned]_vars

(* the same, for SSIDs that fit the in-memory buffer *)
C14_MirrorsWhenFits ==
    [][(obs'.op \in {"save_credentials", "clear_credentials"} /\ obs'.halt = "run"
            /\ Len(obs'.arg) < SSID_SIZE)
       => IF obs'.ret = "ESP_OK"
          THEN /\ ctx'.ssid = StoredIn(nvs', "ssid")
               /\ ctx'.password = StoredIn(nvs', "password")
               /\ ctx'.provisioned
                     = ("provisioned" \in DOMAIN nvs' /\ nvs'["provisioned"] = 1)
          ELSE /\ ctx'.ssid = ctx.ssid
               /\ ctx'.password = ctx.password
               /\ ctx'.provisioned = ctx.provisioned]_vars

PortalCalls(trace) == {i \in 1..Len(trace) : trace[i].k = "portal"}

(* C15 as stated: a startProvisioning() directly after a successful one    *)
(* succeeds, changes nothing and fires no further ProvisioningStarted.     *)
C15_SecondStartSilent ==
    [][(obs.op = "start_provisioning" /\ obs.ret = "ESP_OK" /\ Nominal(obs.trace)
            /\ obs'.op = "start_provisioning" /\ Nominal(obs'.trace))
       => /\ obs'.ret = "ESP_OK"
          /\ ctx' = ctx /\ drv' = drv
          /\ ~Has(obs'.trace, "cb", "PROVISIONING_STARTED")]_vars

(* C15: a startProvisioning() directly after a successful one (driver and  *)
(* portal calls succeeding in both) succeeds and leaves the context, the   *)
(* driver and the portal servers as they are, starting no server again,    *)
(* but it repeats the driver calls and fires ProvisioningStarted again     *)
(* when a callback is registered.  A stopProvisioning() directly after a   *)
(* successful one succeeds, leaves the context, the driver and the servers *)
(* as they are, stops no server again and fires no event.                  *)
C15_RepeatedProvisioningCalls ==
    /\ [][(obs.op = "start_provisioning" /\ obs.ret = "ESP_OK" /\ Nominal(obs.trace)
              /\ obs'.op = "start_provisioning" /\ Nominal(obs'.trace))
          => /\ obs'.ret = "ESP_OK"
             /\ ctx' = ctx /\ drv' = drv /\ glob' = glob /\ nvs' = nvs
             /\ ctx'.state = "PROVISIONING" /\ drv'.server /\ drv'.dns
             /\ PortalCalls(obs'.trace) = {}
             /\ Has(obs'.trace, "drv", "esp_wifi_start")
             /\ Count(obs'.trace, "cb", "PROVISIONING_STARTED")
                   = IF ctx.callback = "NULL" THEN 0 ELSE 1]_vars
    /\ [][(obs.op = "stop_provisioning" /\ obs.ret = "ESP_OK"
              /\ obs'.op = "stop_provisioning" /\ Nominal(obs'.trace))
          => /\ obs'.ret = "ESP_OK"
             /\ ctx' = ctx /\ drv' = drv /\ glob' = glob /\ nvs' = nvs
             /\ ctx'.state = "IDLE" /\ ~drv'.server /\ ~drv'.dns /\ ~drv'.started
             /\ PortalCalls(obs'.trace) = {}
             /\ CallbackEvents(obs'.trace) = {}]_vars

C15_Witness ==
    /\ obs.op = "start_provisioning" /\ obs.ret = "ESP_OK" /\ Nominal(obs.trace)
    /\ PortalCalls(obs.trace) = {} /\ drv.server /\ drv.dns
    /\ Has(obs.trace, "cb", "PROVISIONING_STARTED")

C15_WitnessStop ==
    /\ obs.op = "stop_provisioning" /\ obs.ret = "ESP_OK"
    /\ Has(obs.trace, "state", "IDLE") /\ PortalCalls(obs.trace) = {}

-----------------------------------------------------------------------------
(* The command layer.  A step "handles msg" when it is the delivery of msg *)
(* on the command topic and the copy of the payload could be allocated.    *)

Effects(trace, k) == {i \in 1..Len(trace) : trace[i].k = k}
Handled(o) == o.op = "MQTT_EVENT_DATA" /\ ~Has(o.trace, "fail", "strndup")
WellFormed(msg) == msg.json /\ cJSON_IsString(msg.id) /\ cJSON_IsString(msg.command)
IntParam(msg, key, default_val) == json_helper_get_int(msg.params, key, default_val)

(* C11 as stated: a call of the MQTT manager's init() after a successful   *)
(* one returns success, creates no transport client and registers no       *)
(* low-level event handler.                                                *)
C11_SecondInitNoOp ==
    [][(obs'.op = "mqtt_manager_init" /\ mq.mqtt_client # "NULL" /\ Nominal(obs'.trace))
       => /\ obs'.ret = "ESP_OK"
          /\ ~Has(obs'.trace, "create", "mqtt_client")
          /\ ~Has(obs'.trace, "register", "mqtt_manager_event_handler")]_vars

(* C16: a message on the command topic that is not parseable JSON, or has  *)
(* no string "id", or no string "command", invokes no handler, publishes   *)
(* no response and no state, and changes neither the device state nor the *)
(* manager.                                                                *)
C16_MalformedDropped ==
    [][(obs'.op = "MQTT_EVENT_DATA" /\ ~WellFormed(obs'.arg))
       => /\ Effects(obs'.trace, "handler") = {}
          /\ Effects(obs'.trace, "response") = {}
          /\ Effects(obs'.trace, "state") = {}
          /\ dev' = dev /\ mq' = mq
          /\ obs'.halt = "run"]_vars

C16_Witness ==
    /\ obs.op = "MQTT_EVENT_DATA" /\ obs.arg.json
    /\ ~cJSON_IsString(obs.arg.id) /\ obs.arg.command = JStr("set_mode")
    /\ Has(obs.trace, "log", "Failed to parse command JSON")

C17_WitnessUnknown ==
    /\ Handled(obs) /\ obs.arg.command = JStr("SET_MODE")
    /\ Has(obs.trace, "log", "Unknown command")

(* C18: in the revision with the response topic, a well-formed message     *)
(* whose command is a vocabulary word and whose id has at most 7           *)
(* characters, handled with every platform call succeeding, results in     *)
(* exactly one response; its cmd_id is the id of the message and its       *)
(* status is "success" or "error".                                         *)
C18_OneResponse ==
    (/\ Handled(obs) /\ WellFormed(obs.arg) /\ mq.slots = Slots
     /\ obs.arg.command.s \in Vocabulary
     /\ Len(obs.arg.id.s) <= MQTT_CMD_ID_MAX_LEN - 1
     /\ Nominal(obs.trace) /\ obs.halt = "run")
    => /\ Cardinality(Effects(obs.trace, "response")) = 1
       /\ \A i \in Effects(obs.trace, "response") :
             /\ obs.trace[i].v.cmd_id = obs.arg.id.s
             /\ obs.trace[i].v.status \in {"success", "error"}

C18_Witness ==
    /\ Handled(obs) /\ obs.arg.id.s = Id7 /\ Nominal(obs.trace)
    /\ Has(obs.trace, "response", [cmd_id |-> Id7, status |-> "success"])

C18_WitnessError ==
    /\ Handled(obs) /\ obs.arg.command = JStr("set_device") /\ Nominal(obs.trace)
    /\ Has(obs.trace, "response", [cmd_id |-> Id3, status |-> "error"])

(* what set_devices was asked for one actuator: -1 when the member is      *)
(* missing or not a number                                                 *)
Supplied(msg, device) == IntParam(msg, device, -1)
OnOff(value) == IF value # 0 THEN 1 ELSE 0

(* a set_devices command handled with every platform call succeeding, the  *)
(* actuator table initialised                                              *)
SetDevicesStep(o, o2) ==
    /\ Handled(o2) /\ WellFormed(o2.arg) /\ o2.arg.command.s = "set_devices"
    /\ Nominal(o2.trace) /\ o2.halt = "run"
    /\ mq.slots = Slots /\ dev.initialized

(* C19 as stated: set_devices changes, in the device state and in the      *)
(* actuator table, exactly the actuators whose value is non-negative; the  *)
(* others keep their prior value; mode and interval_sec do not change.     *)
C19_ExactlySupplied ==
    [][SetDevicesStep(obs, obs')
       => /\ \A d \in Devices :
                IF Supplied(obs'.arg, d) >= 0
                THEN /\ dev'.devices[d] = OnOff(Supplied(obs'.arg, d))
                     /\ dev'.device_state[d] = OnOff(Supplied(obs'.arg, d))
                ELSE /\ dev'.devices[d] = dev.devices[d]
                     /\ dev'.device_state[d] = dev.device_state[d]
          /\ dev'.device_state.mode = dev.device_state.mode
          /\ dev'.device_state.interval_sec = dev.device_state.interval_sec]_vars

(* C19: set_devices switches, in the actuator table, exactly the actuators *)
(* whose value is non-negative (on for a non-zero value) and leaves the    *)
(* others; it changes neither interval_sec, the publisher's interval and   *)
(* its dirty flag, nor the mode manager's mode.  It then brings the device *)
(* state in line with the hardware: afterwards fan, light and ac of the    *)
(* device state equal the actuator table and its mode equals the mode      *)
(* manager's, whatever they were before.                                   *)
C19_SetDevices ==
    [][SetDevicesStep(obs, obs')
       => /\ \A d \in Devices :
                /\ dev'.devices[d] = IF Supplied(obs'.arg, d) >= 0
                                     THEN OnOff(Supplied(obs'.arg, d))
                                     ELSE dev.devices[d]
                /\ dev'.device_state[d] = dev'.devices[d]
          /\ dev'.device_state.mode = (IF dev.current_mode = 1 THEN 1 ELSE 0)
          /\ dev'.device_state.interval_sec = dev.device_state.interval_sec
          /\ dev'.g_interval_time_ms = dev.g_interval_time_ms
          /\ dev'.interval_changed = dev.interval_changed
          /\ dev'.current_mode = dev.current_mode
          /\ dev'.isModeON = dev.isModeON]_vars

C19_Witness ==
    /\ Handled(obs) /\ WellFormed(obs.arg) /\ obs.arg.command.s = "set_devices"
    /\ Nominal(obs.trace) /\ dev.initialized
    /\ Supplied(obs.arg, "fan") = 0 /\ Supplied(obs.arg, "light") = -1
    /\ Supplied(obs.arg, "ac") = 0
    /\ dev.devices = [fan |-> 0, light |-> 1, ac |-> 0]
    /\ Has(obs.trace, "gpio", "fan") /\ ~Has(obs.trace, "gpio", "light")

(* a set_interval command handled with every platform call succeeding *)
SetIntervalStep(o2) ==
    /\ Handled(o2) /\ WellFormed(o2.arg) /\ o2.arg.command.s = "set_interval"
    /\ Nominal(o2.trace) /\ o2.halt = "run" /\ mq.slots = Slots

Responses(trace) == {trace[i].v.status : i \in Effects(trace, "response")}

(* C20: set_interval with an interval below MIN_INTERVAL, above            *)
(* MAX_INTERVAL or missing leaves interval_sec and the publisher's         *)
(* interval unchanged, does not set the dirty flag, publishes no state and *)
(* answers "error"; MIN_INTERVAL and MAX_INTERVAL themselves are set and   *)
(* answered "success"; interval_sec is within [MIN_INTERVAL, MAX_INTERVAL] *)
(* in every state.                                                         *)
C20_IntervalBounds ==
    /\ [](dev.device_state.interval_sec \in MIN_INTERVAL..MAX_INTERVAL)
    /\ [][SetIntervalStep(obs')
          => LET interval == IntParam(obs'.arg, "interval", 0)
             IN IF interval >= MIN_INTERVAL /\ interval <= MAX_INTERVAL
                THEN /\ dev'.device_state.interval_sec = interval
                     /\ dev'.g_interval_time_ms = interval * 1000
                     /\ dev'.interval_changed
                     /\ Responses(obs'.trace) = {"success"}
                ELSE /\ dev'.device_state.interval_sec = dev.device_state.interval_sec
                     /\ dev'.g_interval_time_ms = dev.g_interval_time_ms
                     /\ dev'.interval_changed = dev.interval_changed
                     /\ Effects(obs'.trace, "state") = {}
                     /\ Responses(obs'.trace) = {"error"}]_vars

C20_Witness ==
    /\ Handled(obs) /\ obs.arg.command = JStr("set_interval") /\ Nominal(obs.trace)
    /\ IntParam(obs.arg, "interval", 0) = MAX_INTERVAL
    /\ dev.device_state.interval_sec = MAX_INTERVAL
    /\ Responses(obs.trace) = {"success"}

C20_WitnessRejected ==
    /\ Handled(obs) /\ obs.arg.command = JStr("set_interval") /\ Nominal(obs.trace)
    /\ IntParam(obs.arg, "interval", 0) = MAX_INTERVAL + 1
    /\ dev.device_state.interval_sec = INTERVAL_TIME_MS \div 1000 /\ ~dev.interval_changed
    /\ Responses(obs.trace) = {"error"}

(* a set_device command naming no actuator, handled with every platform    *)
(* call succeeding                                                         *)
UnknownDeviceStep(o2) ==
    /\ Handled(o2) /\ WellFormed(o2.arg) /\ o2.arg.command.s = "set_device"
    /\ json_helper_get_string(o2.arg.params, "device", "") \notin Devices
    /\ Nominal(o2.trace) /\ o2.halt = "run"
    /\ mq.slots = Slots

(* C21 as stated: set_device with a name other than fan, light or ac       *)
(* switches nothing, changes no field of the device state and no entry of  *)
(* the actuator table, and is answered "error".                            *)
C21_UnknownDeviceNoChange ==
    [][UnknownDeviceStep(obs')
       => /\ Effects(obs'.trace, "gpio") = {}
          /\ dev'.devices = dev.devices
          /\ dev'.device_state = dev.device_state
          /\ Responses(obs'.trace) = {"error"}]_vars

(* C21: set_device with a name other than fan, light or ac switches        *)
(* nothing, changes no entry of the actuator table, writes no actuator     *)
(* field from the command and is answered "error" once; interval_sec and   *)
(* the mode manager keep their values.  The handler still publishes the    *)
(* state, and with the actuator table initialised that brings fan, light,  *)
(* ac and mode of the device state in line with the table and the mode     *)
(* manager; otherwise the device state is unchanged.                       *)
C21_UnknownDevice ==
    [][UnknownDeviceStep(obs')
       => /\ Effects(obs'.trace, "gpio") = {}
          /\ dev'.devices = dev.devices
          /\ dev'.current_mode = dev.current_mode
          /\ Responses(obs'.trace) = {"error"}
          /\ Cardinality(Effects(obs'.trace, "response")) = 1
          /\ dev'.device_state =
                IF dev.initialized
                THEN [dev.device_state EXCEPT
                        !.mode = IF dev.current_mode = 1 THEN 1 ELSE 0,
                        !.fan = dev.devices.fan,
                        !.light = dev.devices.light,
                        !.ac = dev.devices.ac]
                ELSE dev.device_state]_vars

C21_Witness ==
    /\ Handled(obs) /\ obs.arg.command = JStr("set_device") /\ Nominal(obs.trace)
    /\ json_helper_get_string(obs.arg.params, "device", "") = "heater"
    /\ Responses(obs.trace) = {"error"}
    /\ Has(obs.trace, "log", "Unknown device")
    /\ dev.devices.light = 1

(* a get_status command handled with every platform call succeeding *)
GetStatusStep(o2) ==
    /\ Handled(o2) /\ WellFormed(o2.arg) /\ o2.arg.command.s = "get_status"
    /\ Nominal(o2.trace) /\ o2.halt = "run"
    /\ mq.slots = Slots

(* C22 as stated: get_status publishes once on each of the data, state and *)
(* info topics and leaves the device state, the actuator table and the     *)
(* mode manager as they were.                                              *)
C22_GetStatusNoMutation ==
    [][GetStatusStep(obs')
       => /\ \A topic \in {"data", "state", "info"} :
                Cardinality(Effects(obs'.trace, topic)) = 1
          /\ dev' = dev]_vars

(* C22: get_status publishes once on each of the data, state and info      *)
(* topics, after its response; it switches nothing and leaves the actuator *)
(* table, the mode manager, interval_sec, the publisher's interval and its *)
(* dirty flag as they were.  Before the state is published, fan, light, ac *)
(* and mode of the device state are brought in line with the actuator      *)
(* table and the mode manager (when the table is initialised); the state   *)
(* message carries the device state as it is afterwards.                   *)
C22_GetStatus ==
    [][GetStatusStep(obs')
       => /\ \A topic \in {"data", "state", "info"} :
                Cardinality(Effects(obs'.trace, topic)) = 1
          /\ Responses(obs'.trace) = {"success"}
          /\ Pos(obs'.trace, "response", [cmd_id |-> obs'.arg.id.s, status |-> "success"])
                < Pos(obs'.trace, "data", "sensor")
          /\ Effects(obs'.trace, "gpio") = {}
          /\ dev'.devices = dev.devices
          /\ dev'.current_mode = dev.current_mode /\ dev'.isModeON = dev.isModeON
          /\ dev'.g_interval_time_ms = dev.g_interval_time_ms
          /\ dev'.interval_changed = dev.interval_changed
          /\ dev'.device_state =
                IF dev.initialized
                THEN [dev.device_state EXCEPT
                        !.mode = IF dev.current_mode = 1 THEN 1 ELSE 0,
                        !.fan = dev.devices.fan,
                        !.light = dev.devices.light,
                        !.ac = dev.devices.ac]
                ELSE dev.device_state
          /\ \A i \in Effects(obs'.trace, "state") :
                obs'.trace[i].v = [mode |-> dev'.device_state.mode,
                                   interval |-> dev'.device_state.interval_sec,
                                   fan |-> dev'.device_state.fan,
                                   light |-> dev'.device_state.light,
                                   ac |-> dev'.device_state.ac]]_vars

C22_Witness ==
    /\ Handled(obs) /\ obs.arg.command = JStr("get_status") /\ Nominal(obs.trace)
    /\ Has(obs.trace, "data", "sensor") /\ Has(obs.trace, "info", "device")
    /\ Has(obs.trace, "state", [mode |-> 0, interval |-> MIN_INTERVAL,
                                fan |-> 1, light |-> 1, ac |-> 0])

(* C23: a reboot or factory_reset command whose response could be          *)
(* published only answers and starts its delayed task: the response comes  *)
(* before the task is created, and the handler itself neither erases the   *)
(* store nor restarts.  The delayed task waits first; for a factory reset  *)
(* it then erases the store and restarts, in this order; for a reboot it   *)
(* restarts and leaves the store as it is.                                 *)
C23_AcknowledgeFirst ==
    /\ [][(Handled(obs') /\ WellFormed(obs'.arg) /\ Nominal(obs'.trace)
           /\ mq.slots = Slots
           /\ obs'.arg.command.s \in {"reboot", "factory_reset"})
          => /\ Responses(obs'.trace) = {"success"}
             /\ dev'.delayed = obs'.arg.command.s
             /\ Pos(obs'.trace, "response",
                    [cmd_id |-> obs'.arg.id.s, status |-> "success"])
                  < Pos(obs'.trace, "task", obs'.arg.command.s \o "_task")
             /\ Effects(obs'.trace, "nvs") = {} /\ Effects(obs'.trace, "call") = {}
             /\ nvs' = nvs /\ obs'.halt = "run"]_vars
    /\ [][(dev.delayed = "none" /\ dev'.delayed # "none" /\ Nominal(obs'.trace))
          => Effects(obs'.trace, "response") # {}]_vars
    /\ [][(Effects(obs'.trace, "nvs") # {} \/ (nvs' = NvsEmpty /\ nvs # NvsEmpty))
          => (obs'.op = "factory_reset" /\ dev.delayed = "factory_reset")]_vars
    /\ [][obs'.op = "factory_reset"
          => /\ nvs' = NvsEmpty /\ obs'.halt = "restart"
             /\ Pos(obs'.trace, "delay", "1000 ms") = 1
             /\ Pos(obs'.trace, "nvs", "nvs_flash_erase") = 2
             /\ Pos(obs'.trace, "call", "esp_restart") = 3]_vars
    /\ [][obs'.op = "reboot"
          => /\ nvs' = nvs /\ obs'.halt = "restart"
             /\ Pos(obs'.trace, "delay", "1000 ms") = 1
             /\ Effects(obs'.trace, "nvs") = {}
             /\ Pos(obs'.trace, "call", "esp_restart") = 2]_vars

C23_Witness ==
    /\ obs.op = "factory_reset" /\ obs.halt = "restart" /\ nvs = NvsEmpty
    /\ Has(obs.trace, "nvs", "nvs_flash_erase")

C23_WitnessReboot ==
    /\ obs.op = "reboot" /\ obs.halt = "restart" /\ nvs = NvsHome
    /\ Has(obs.trace, "call", "esp_restart")

C23_WitnessHandler ==
    /\ Handled(obs) /\ obs.arg.command = JStr("factory_reset") /\ Nominal(obs.trace)
    /\ dev.delayed = "factory_reset" /\ nvs = NvsHome
    /\ Responses(obs.trace) = {"success"}

(* the QoS and the retain flag each published topic is fixed to *)
TopicTable ==
    {[topic |-> "data", qos |-> 0, retain |-> 0],
     [topic |-> "state", qos |-> 1, retain |-> 1],
     [topic |-> "info", qos |-> 1, retain |-> 1],
     [topic |-> "response", qos |-> 1, retain |-> 1]}

(* C25: every message handed to the transport carries the QoS and retain   *)
(* flag of its topic: data QoS 0 without retain; state, info and response  *)
(* QoS 1 with retain.  Nothing is published on the command topic, which is *)
(* only subscribed, at QoS 1.                                              *)
C25_TopicQos ==
    /\ \A i \in Effects(obs.trace, "esp_mqtt_client_publish") :
          obs.trace[i].v \in TopicTable
    /\ \A i \in Effects(obs.trace, "esp_mqtt_client_subscribe") :
          obs.trace[i].v = [topic |-> "command", qos |-> 1]

C25_Witness ==
    /\ Handled(obs) /\ obs.arg.command = JStr("get_status") /\ Nominal(obs.trace)
    /\ \A t \in TopicTable : Has(obs.trace, "esp_mqtt_client_publish", t)

C25_WitnessSubscribe ==
    /\ obs.op = "MQTT_EVENT_CONNECTED"
    /\ Has(obs.trace, "esp_mqtt_client_subscribe", [topic |-> "command", qos |-> 1])

(* C26: the handling of every connected event, the info publish            *)
(* succeeding, marks the transport connected, subscribes the command topic *)
(* once at QoS 1, then runs the application's connected callback, and that *)
(* publishes one info message; nothing else is published.                  *)
C26_ConnectedEvent ==
    [][(obs'.op = "MQTT_EVENT_CONNECTED" /\ Nominal(obs'.trace))
       => /\ mq'.mqtt_connected /\ mq'.isMQTT
          /\ Cardinality(Effects(obs'.trace, "esp_mqtt_client_subscribe")) = 1
          /\ Cardinality(Effects(obs'.trace, "info")) = 1
          /\ Cardinality(Effects(obs'.trace, "esp_mqtt_client_publish")) = 1
          /\ Pos(obs'.trace, "esp_mqtt_client_subscribe",
                 [topic |-> "command", qos |-> 1])
               < Pos(obs'.trace, "log", "MQTT Connected")
          /\ Pos(obs'.trace, "log", "MQTT Connected") < Pos(obs'.trace, "info", "device")
          /\ Pos(obs'.trace, "esp_mqtt_client_subscribe",
                 [topic |-> "command", qos |-> 1]) = 1]_vars

(* a connected event after a command was handled, so not the first one *)
C26_Witness ==
    /\ obs.op = "MQTT_EVENT_CONNECTED" /\ Nominal(obs.trace)
    /\ dev.device_state.mode = 1
    /\ Has(obs.trace, "info", "device")

C26_WitnessFirst ==
    /\ obs.op = "MQTT_EVENT_CONNECTED" /\ Nominal(obs.trace)
    /\ dev.device_state.mode = 0 /\ dev.current_mode = 1
    /\ Has(obs.trace, "info", "device")

-----------------------------------------------------------------------------
(* C24 as stated: under any interleaving of the publisher with the connect *)
(* and disconnect events, whenever the publisher hands a message to the    *)
(* transport the transport is connected.                                   *)
C24_NoPublishWhileDown ==
    [][(PubSend /\ tk'.pub.pc # tk.pub.pc) => mq.mqtt_connected]_vars

(* C24: a publish that finds the transport down at its connection test     *)
(* returns NotConnected and hands nothing to the transport; the publisher  *)
(* reaches a hand-over only from a connection test that found the          *)
(* transport connected; a loop iteration that finds it down publishes      *)
(* nothing.                                                                *)
C24_PublishAfterCheck ==
    [][/\ (tk.pub.pc \in {"data_check", "pcs_check"} /\ tk'.pub.pc # tk.pub.pc
           /\ ~mq.mqtt_connected)
          => (tk'.pub.pc \notin {"data_send", "pcs_send"}
              /\ tk'.pub.ret = "ESP_ERR_INVALID_STATE")
       /\ (tk'.pub.pc \in {"data_send", "pcs_send"} /\ tk'.pub.pc # tk.pub.pc)
          => (mq.mqtt_connected /\ tk.pub.pc \in {"data_check", "pcs_check"})
       /\ (tk.pub.pc = "loop" /\ tk'.pub.pc # "loop" /\ ~mq.mqtt_connected)
          => tk'.pub.pc = "delay"]_vars

(* the data publish has returned NotConnected while the transport is down *)
C24_Witness ==
    /\ tk.pub.pc = "backup" /\ tk.pub.ret = "ESP_ERR_INVALID_STATE"
    /\ ~mq.mqtt_connected

(* the state publish has returned NotConnected *)
C24_WitnessState ==
    /\ tk.pub.pc = "delay" /\ tk.pub.ret = "ESP_ERR_INVALID_STATE"
    /\ ~mq.mqtt_connected

-----------------------------------------------------------------------------
(* C27: every write to device_state and the five-field read of the state  *)
(* publish happen while the acting task holds state_mutex and no other    *)
(* task does; the five values a state publish has read are device_state   *)
(* as it is at the instant the last of them is read.                      *)
C27_StateMutex ==
    /\ [](/\ tk.cmd.pc \in {"si_w2", "si_w3", "sd_w2"} => tk.owner = "cmd"
          /\ tk.pub.pc = "pcs_rd2"
             => (/\ tk.owner = "pub"
                 /\ tk.pub.snap.mode = dev.device_state.mode
                 /\ tk.pub.snap.interval = dev.device_state.interval_sec
                 /\ tk.pub.snap.fan = dev.device_state.fan))
    /\ [][/\ dev'.device_state # dev.device_state
             => \/ tk.owner = "none"
                \/ tk.owner = "cmd" /\ tk'.cmd # tk.cmd
                \/ tk.owner = "pub" /\ tk'.pub # tk.pub
          /\ (tk.pub.pc = "pcs_rd2" /\ tk'.pub.pc = "pcs_check")
             => tk'.pub.snap = Snapshot(dev.device_state)
          /\ (tk.pub.pc \in {"pcs_check", "pcs_send"}
              /\ tk'.pub.pc \in {"pcs_check", "pcs_send"})
             => tk'.pub.snap = tk.pub.snap]_vars

(* the publisher has read the five fields while set_devices, which has *)
(* written fan and light, is switching the hardware                    *)
C27_Witness ==
    /\ tk.pub.pc = "pcs_check" /\ tk.cmd.pc = "sd_hw"
    /\ tk.pub.snap = Snapshot(dev.device_state)
    /\ tk.pub.snap.fan = 1 /\ tk.pub.snap.light = 1

(* set_devices waits for the publisher to give the mutex *)
C27_WitnessHeld ==
    /\ tk.pub.pc = "pcs_rd2" /\ tk.owner = "pub" /\ tk.cmd.pc = "idle"
    /\ mq.mqtt_connected /\ tk.pub.snap.interval = MIN_INTERVAL + 1

-----------------------------------------------------------------------------
(* the message the publisher is about to hand over carries fan, light, ac *)
(* equal to the actuator registry and mode equal to the mode manager      *)
MatchesHardware ==
    /\ tk.pub.snap.fan = dev.devices["fan"]
    /\ tk.pub.snap.light = dev.devices["light"]
    /\ tk.pub.snap.ac = dev.devices["ac"]
    /\ tk.pub.snap.mode = IF dev.current_mode = 1 THEN 1 ELSE 0

(* C28 as stated: every state message the publisher hands over while no   *)
(* command handler and no button handler is mid-execution carries the     *)
(* registry's fan, light, ac and the mode manager's mode.                 *)
C28_StateMatchesHardware ==
    [][(tk.pub.pc = "pcs_send" /\ tk'.pub.pc # "pcs_send" /\ tk.cmd.pc = "idle")
       => MatchesHardware]_vars

(* C28: the synchronisation, when it gets the mutex, writes the states it *)
(* has read and the mode manager's mode into device_state; a state        *)
(* message carries the registry's fan, light, ac and the mode manager's   *)
(* mode when the synchronisation was done and no other task has written   *)
(* the registry, the mode or those fields since it read the registry.     *)
C28_FreshStateMatches ==
    [][/\ (tk.pub.pc = "pcs_sync" /\ tk'.pub.pc = "pcs_take" /\ tk.owner = "none")
          => dev'.device_state = Synced(dev.device_state, dev.current_mode, tk.pub.hw)
       /\ (tk.pub.pc = "pcs_send" /\ tk'.pub.pc # "pcs_send" /\ tk.pub.fresh)
          => MatchesHardware]_vars

(* a state message after the light button alone has switched the light *)
C28_Witness ==
    /\ tk.pub.pc = "pcs_send" /\ tk.pub.fresh /\ MatchesHardware
    /\ tk.pub.snap.light = 1 /\ tk.pub.snap.fan = 0 /\ tk.pub.snap.mode = 1

(* the light button is handled to its end between the publisher's read *)
(* and its hand-over                                                   *)
C28_WitnessStale ==
    /\ tk.pub.pc = "pcs_send" /\ ~tk.pub.fresh /\ tk.cmd.pc = "idle" /\ dev.initialized
    /\ tk.pub.snap.light # dev.devices["light"]
    /\ dev.device_state.light = dev.devices["light"]

-----------------------------------------------------------------------------
(* C29: whenever the publisher stands at an acquisition of state_mutex *)
(* that another task holds, the acquisition has a bounded timeout.     *)
C29_BoundedTakes ==
    (PubWait # "none" /\ tk.owner # "none") => PubWait = "100 ms"

-----------------------------------------------------------------------------
(* C30: from the moment set_interval has set interval_changed until the   *)
(* publisher resets its timer, the flag is set or the publisher is inside *)
(* the reset; a tick that finds the flag set enters the reset; the reset  *)
(* sets last_data_publish to the tick's time; and a telemetry publish     *)
(* decided with no interval change outstanding is decided with the new    *)
(* interval, a full interval after last_data_publish.                     *)
C30_IntervalReset ==
    /\ [](tk.accepted => (dev.interval_changed \/ tk.pub.pc = "reset"))
    /\ [][/\ (tk.pub.pc = "flag" /\ tk'.pub.pc # "flag" /\ dev.interval_changed)
             => tk'.pub.pc = "reset"
          /\ (tk.pub.pc = "reset" /\ tk'.pub.pc # "reset")
             => (tk'.pub.elapsed = 0 /\ ~tk'.accepted /\ tk'.pub.pc = "data_due")
          /\ (tk'.pub.pc = "data_take" /\ tk.pub.pc # "data_take" /\ ~tk.accepted
              /\ tk.cmd.pc \notin {"si_w2", "si_w3"})
             => (/\ tk.pub.current_interval_ms = dev.g_interval_time_ms
                 /\ dev.g_interval_time_ms = dev.device_state.interval_sec * 1000
                 /\ tk.pub.elapsed * 1000 >= dev.g_interval_time_ms)]_vars

(* the publisher has just reset its timer for an accepted interval *)
C30_Witness ==
    /\ tk.pub.pc = "data_due" /\ tk.pub.elapsed = 0
    /\ ~dev.interval_changed /\ ~tk.accepted
    /\ dev.g_interval_time_ms = (MIN_INTERVAL + 1) * 1000
    /\ tk.pub.current_interval_ms = dev.g_interval_time_ms

(* a set_interval completes its writes after the publisher has read the *)
(* interval for this tick and before it clears the flag                 *)
C30_WitnessRace ==
    /\ tk.pub.pc = "reset" /\ tk.accepted /\ dev.interval_changed
    /\ tk.cmd.pc = "finish"
    /\ tk.pub.current_interval_ms = (MIN_INTERVAL + 1) * 1000
    /\ dev.g_interval_time_ms = INTERVAL_TIME_MS

-----------------------------------------------------------------------------
StateMessages(trace) == {trace[i].v : i \in Effects(trace, "state")}

(* C33: every state message handed to the transport carries mode, fan,   *)
(* light and ac each 0 or 1 and an interval within                        *)
(* [MIN_INTERVAL, MAX_INTERVAL], whatever numbers the commands supplied. *)
C33_StateMessageRanges ==
    \A m \in StateMessages(obs.trace) :
        /\ m.mode \in {0, 1} /\ m.fan \in {0, 1} /\ m.light \in {0, 1} /\ m.ac \in {0, 1}
        /\ m.interval \in MIN_INTERVAL..MAX_INTERVAL

-----------------------------------------------------------------------------
(* a set_mode command handled with every platform call succeeding *)
SetModeStep(o2) ==
    /\ Handled(o2) /\ WellFormed(o2.arg) /\ o2.arg.command.s = "set_mode"
    /\ Nominal(o2.trace) /\ o2.halt = "run" /\ mq.slots = Slots

(* C38: a set_mode answered with success leaves the mode manager's mode, *)
(* isModeON and the device state's mode equal to the requested mode; a   *)
(* set_mode whose mode is neither 0 nor 1 changes none of the three and  *)
(* is not answered with success.                                         *)
C38_SetModeAnswer ==
    [][SetModeStep(obs')
       => LET mode == IntParam(obs'.arg, "mode", 0)
          IN /\ "success" \in Responses(obs'.trace)
                => /\ dev'.current_mode = mode
                   /\ dev'.isModeON = (mode = 1)
                   /\ dev'.device_state.mode = mode
             /\ mode \notin {0, 1}
                => /\ dev'.current_mode = dev.current_mode
                   /\ dev'.isModeON = dev.isModeON
                   /\ dev'.device_state.mode = dev.device_state.mode
                   /\ "success" \notin Responses(obs'.trace)]_vars


(* the step is a pass of the publisher's loop *)
TickStep == obs'.op = "task_mqtt_run"
BackupDue == mq.mqtt_connected /\ tk.pub.state_elapsed >= STATE_BACKUP_INTERVAL
BackupAttempted(trace) == Has(trace, "log", "state backup")

(* C32: a pass of the loop calls task_mqtt_publish_current_state exactly   *)
(* when the transport is connected and STATE_BACKUP_INTERVAL seconds have  *)
(* passed since last_state_publish, whatever the mode and the data         *)
(* interval; the state message goes out when nothing fails; the pass then  *)
(* restarts the window, and no command, button or broker event touches     *)
(* last_state_publish.                                                     *)
C32_BackupEveryWindow ==
    [][/\ TickStep
          => /\ BackupAttempted(obs'.trace) <=> BackupDue
             /\ (BackupDue /\ Nominal(obs'.trace)) => StateMessages(obs'.trace) # {}
             /\ tk'.pub.state_elapsed
                   = IF BackupDue THEN 1
                     ELSE Min(tk.pub.state_elapsed + 1, STATE_BACKUP_INTERVAL)
       /\ ~TickStep => tk'.pub.state_elapsed = tk.pub.state_elapsed]_vars

(* a backup went out with the mode OFF and a data interval set by command *)
C32_Witness ==
    /\ obs.op = "task_mqtt_run" /\ BackupAttempted(obs.trace)
    /\ StateMessages(obs.trace) # {}
    /\ ~dev.isModeON /\ dev.g_interval_time_ms # INTERVAL_TIME_MS
    /\ tk.pub.state_elapsed = 1


(* what a pass of the loop finds: telemetry is due *)
DataDue ==
    /\ mq.mqtt_connected /\ ~dev.interval_changed
    /\ tk.pub.elapsed * 1000 >= dev.g_interval_time_ms
DataPublished(trace) == Has(trace, "data", "sensor")
DataSkipped(trace) == Has(trace, "log", "Skipping sensor data publish - Mode is OFF")
(* last_data_publish was left alone by the step: a second more has passed *)
TimerRuns == tk'.pub.elapsed = Min(tk.pub.elapsed + 1, ElapsedCap)
(* last_data_publish = now was executed by the step *)
TimerRestarted == tk'.pub.elapsed = 1

(* C34 as stated: a pass on which telemetry is due and the mode is OFF     *)
(* leaves last_data_publish alone, and a pass with the mode ON on which an *)
(* interval has passed since the last telemetry publish publishes          *)
C34_AdvanceOnlyOnPublish ==
    [][TickStep
       => /\ (DataDue /\ ~dev.isModeON) => TimerRuns
          /\ (mq.mqtt_connected /\ dev.isModeON /\ ~dev.interval_changed
              /\ tk.pub.since_pub * 1000 >= dev.g_interval_time_ms)
             => DataPublished(obs'.trace)]_vars

(* C34: last_data_publish advances on every pass on which telemetry is     *)
(* due, whether the telemetry is published (mode ON) or skipped (mode      *)
(* OFF); on any other pass it advances only for an interval change. So     *)
(* telemetry is published only on a pass that finds a full interval passed *)
(* since the last due pass, published or skipped.                          *)
C34_AdvanceOnEveryDueTick ==
    [][TickStep
       => /\ DataDue
             => /\ TimerRestarted
                /\ DataPublished(obs'.trace) <=> dev.isModeON
                /\ DataSkipped(obs'.trace) <=> ~dev.isModeON
          /\ ~DataDue
             => /\ ~DataPublished(obs'.trace) /\ ~DataSkipped(obs'.trace)
                /\ IF mq.mqtt_connected /\ dev.interval_changed
                   THEN TimerRestarted ELSE TimerRuns]_vars

(* a due pass was skipped for the mode and restarted the timer although    *)
(* nothing has been published for a full interval                          *)
C34_Witness ==
    /\ obs.op = "task_mqtt_run" /\ DataSkipped(obs.trace)
    /\ tk.pub.elapsed = 1 /\ tk.pub.since_pub = ElapsedCap


(* the state a pass of the loop leaves when it has published telemetry *)
DataTick == obs.op = "task_mqtt_run" /\ DataPublished(obs.trace)
(* the publish test of a pass, and the distance of two telemetry publishes *)
PublishWhenDue ==
    [][TickStep
       => /\ DataPublished(obs'.trace) <=> (DataDue /\ dev.isModeON)
          /\ DataPublished(obs'.trace)
             => tk.pub.since_pub * 1000 >= dev.g_interval_time_ms]_vars

(* C31 as stated: a pass publishes telemetry exactly when the transport is *)
(* connected, the interval has passed since last_data_publish and the mode *)
(* is ON, two publishes are an interval apart, and from the moment the     *)
(* transport stays connected with the mode ON telemetry is published again *)
(* and again                                                               *)
C31_PeriodicTelemetry ==
    /\ PublishWhenDue
    /\ <>[](mq.mqtt_connected /\ dev.isModeON) => []<>DataTick

(* C31: the same, the recurrence only from the moment no interval change   *)
(* is pending any more: every accepted set_interval restarts the wait, so  *)
(* changes that keep arriving less than an interval apart keep the         *)
(* telemetry from being published                                          *)
C31_PeriodicTelemetryQuiet ==
    /\ PublishWhenDue
    /\ <>[](mq.mqtt_connected /\ dev.isModeON /\ ~dev.interval_changed) => []<>DataTick

(* telemetry went out under an interval set by command, a second ago *)
C31_Witness ==
    /\ DataTick /\ dev.isModeON /\ mq.mqtt_connected
    /\ dev.g_interval_time_ms = (MIN_INTERVAL + 1) * 1000
    /\ tk.pub.since_pub = 1 /\ tk.pub.elapsed = 1


(* C39: except between the two writes of task_mqtt_on_set_interval, which  *)
(* it makes holding state_mutex, the interval the publisher times the      *)
(* telemetry with, g_interval_time_ms, is the interval of the state        *)
(* messages, device_state.interval_sec, in milliseconds.                   *)
C39_IntervalAgreement ==
    tk.cmd.pc # "si_w2" => dev.g_interval_time_ms = dev.device_state.interval_sec * 1000

(* a set_interval has been accepted and both intervals are the new one *)
C39_Witness ==
    /\ tk.cmd.pc = "finish" /\ tk.accepted
    /\ dev.device_state.interval_sec = MIN_INTERVAL + 1
    /\ dev.g_interval_time_ms = (MIN_INTERVAL + 1) * 1000

(* inside the critical section the two differ *)
C39_WitnessInside ==
    /\ tk.cmd.pc = "si_w2" /\ tk.owner = "cmd"
    /\ dev.g_interval_time_ms # dev.device_state.interval_sec * 1000


DriverEvents == {"STA_START", "STA_DISCONNECTED", "GOT_IP", "OTHER_EVENT"}

(* C35: once the recorded state is Provisioning, no event reported by the  *)
(* driver (station start, disconnect, address acquired, any other) changes *)
(* it.                                                                      *)
C35_ProvisioningSticky ==
    [][(ctx.state = "PROVISIONING" /\ obs'.op \in DriverEvents)
       => ctx'.state = "PROVISIONING"]_vars


SessionStarts(trace) == Count(trace, "session", "started")

C40_WitnessFirst ==
    /\ obs.op = "GOT_IP" /\ mq.running /\ SessionStarts(obs.trace) = 1


(* C36: whenever a GotIP event has been handled completely, handler and    *)
(* callback, and no disconnect has changed the state since, isWiFi is true *)
C36_IsWiFiAfterGotIp ==
    (Up /\ tk.ev = "idle" /\ ctx.state = "CONNECTED") => glob.isWiFi


(* t waits without limit for a mutex that u holds *)
WaitsFor(t, u) ==
    /\ tk.todo[t] # <<>>
    /\ Head(tk.todo[t]).a = "take"
    /\ tk.holder[Head(tk.todo[t]).m] = u
(* the task reached from t over n steps of WaitsFor, "none" when the chain *)
(* ends before                                                             *)
RECURSIVE WaitChain(_, _)
WaitChain(t, n) ==
    IF n = 0 THEN t
    ELSE LET u == WaitChain(t, n - 1)
         IN IF u \in LockTasks /\ \E v \in LockTasks : WaitsFor(u, v)
            THEN CHOOSE v \in LockTasks : WaitsFor(u, v)
            ELSE "none"

(* C37: no task waits for a mutex it holds itself, and no chain of tasks   *)
(* each waiting for a mutex the next one holds leads back to its start;    *)
(* a give is made by the holder.                                           *)
C37_NoCircularWait ==
    \A t \in LockTasks :
        /\ \A n \in 1..Cardinality(LockTasks) : WaitChain(t, n) # t
        /\ (tk.todo[t] # <<>> /\ Head(tk.todo[t]).a = "give")
           => tk.holder[Head(tk.todo[t]).m] = t

(* the transport task waits for state_mutex while the publisher holds it   *)
(* and data_mutex inside it, and the event loop task waits for the         *)
(* connection mutex that the main task holds                               *)
C37_Witness ==
    /\ WaitsFor("mqtt", "publisher") /\ tk.holder.data = "publisher"
    /\ WaitsFor("event", "main")

=============================================================================
